---- MODULE Spec2Model ----
(***************************************************************************)
(* A model of the ideological graph of luckyjupiter/ideograph:             *)
(* src/graph/ideograph.py (IdeologicalGraph), src/models/edge.py (Edge),   *)
(* src/models/position.py (Position) and src/models/walker.py (Walker).    *)
(*                                                                         *)
(* Floats in [0,1] (weight, confidence, canonical_score) are held on a     *)
(* grid of 1/Scale: the integer n stands for n/Scale.  A product is exact  *)
(* and a sum is rounded to the nearest grid point (ties to even), as a     *)
(* float addition rounds to the grid of its result.  Timestamps            *)
(* (created_at, updated_at) are not modelled.                              *)
(***************************************************************************)
EXTENDS Integers, Sequences, FiniteSets, TLC

\* ------------------------------------------------------------------ bounds
\* Grid points per unit: a weight w is the integer w * Scale.
Scale == 100
\* Exploration bound: connect() is called again on an existing edge only
\* while that edge's co_occurrence is below this.
MaxCoOccurrence == 1
\* walk_step() is called on a walker with fewer recorded choices than this.
MaxChoices == 3
\* record_tension() is called on an edge that recorded fewer tensions than this.
MaxTension == 2
\* record_response calls that found the prediction wrong, per walker.
MaxErrors == 2
\* ForkTree() is constructed at most this many times.
MaxTrees == 2
\* get_path_to_root's list is tracked up to this length; the loop goes on.
MaxPath == 4
\* The interpreter's recursion limit, scaled down: recurse() nested deeper
\* than this raises RecursionError.
RecursionLimit == 4
\* create_walker() is called at most this many times.
MaxWalkers == 3
\* The clock is followed for this many seconds.
MaxClock == 2

\* ------------------------------------------------------- program constants
\* IdeologicalGraph.learning_rate = 0.1, as the fraction 1/10.
LearningRateNum == 1
LearningRateDen == 10
\* walk_step returns next_positions[:5].
SuggestionLimit == 5

\* Edge() default weight 0.5, connect() default weight 0.5.
DefaultWeight == Scale \div 2
\* The created edge at the weight Edge() gives by default.
CoOccurrenceWeight_default == DefaultWeight
\* The weight of the edge _update_edges_from_choice creates: 0.3.
CoOccurrenceWeight == (3 * Scale) \div 10
\* Edge() default confidence 0.5 and Position() default canonical_score 0.5.
DefaultConfidence == Scale \div 2
\* A weight close to 1 that a caller may pass to connect().
NearOne == Scale - 2

Min(a, b) == IF a <= b THEN a ELSE b
Max(a, b) == IF a >= b THEN a ELSE b

\* n / d rounded to the nearest integer, ties to even (d > 0).
RoundDiv(n, d) ==
    LET q == n \div d
        r == n % d
    IN  IF 2 * r < d THEN q
        ELSE IF 2 * r > d THEN q + 1
        ELSE IF q % 2 = 0 THEN q ELSE q + 1

\* ------------------------------------------------------------------ enums
\* class Domain(Enum): member name |-> value.
Domain ==
    [ECONOMICS |-> "economics", CIVIL_LIBERTIES |-> "civil_liberties",
     FOREIGN_POLICY |-> "foreign_policy", SOCIAL |-> "social",
     EPISTEMOLOGY |-> "epistemology", GOVERNANCE |-> "governance",
     TECHNOLOGY |-> "technology", ENVIRONMENT |-> "environment",
     IDENTITY |-> "identity", METAPHYSICS |-> "metaphysics",
     UNCATEGORIZED |-> "uncategorized"]

\* class EdgeType(Enum): member name |-> value.
EdgeType ==
    [IMPLIES |-> "implies", CONTRADICTS |-> "contradicts",
     DERIVES_FROM |-> "derives_from", PRIORITIZES_OVER |-> "prioritizes_over",
     COLLIDER |-> "collider", CONFOUNDER |-> "confounder",
     MEDIATOR |-> "mediator", FORK |-> "fork", ASSOCIATION |-> "association"]

\* The exception Enum(value) raises on a value no member has.
ValueError == "ValueError"

\* Domain(s) laxly: an unknown value becomes the default member.
DomainOfLenient(s) ==
    IF \E m \in DOMAIN Domain : Domain[m] = s
    THEN CHOOSE m \in DOMAIN Domain : Domain[m] = s
    ELSE "UNCATEGORIZED"

\* Domain(s): the member whose value is s; ValueError when there is none.
DomainOf(s) ==
    IF \E m \in DOMAIN Domain : Domain[m] = s
    THEN CHOOSE m \in DOMAIN Domain : Domain[m] = s
    ELSE ValueError

\* EdgeType(s): the member whose value is s; ValueError when there is none.
EdgeTypeOf(s) ==
    IF \E m \in DOMAIN EdgeType : EdgeType[m] = s
    THEN CHOOSE m \in DOMAIN EdgeType : EdgeType[m] = s
    ELSE ValueError

\* ----------------------------------------------------------------- inputs
PosIds == {"P1", "P2", "P3"}
Walkers == {"w1"}
\* Choice.confidence values passed to walk_step.
Confidences == {(8 * Scale) \div 10}

\* Position objects a caller passes to add_position.  obj names the Python
\* object (its identity); two objects may carry the same id.
PositionInputs ==
    {[obj |-> "a", id |-> "P1", claim |-> "c1", domain |-> "ECONOMICS",
      valence |-> << >>, level |-> "axiom", sources |-> <<"s1">>,
      visit_count |-> 0, canonical_score |-> DefaultConfidence,
      traditions |-> << >>],
     [obj |-> "b", id |-> "P1", claim |-> "c1b", domain |-> "SOCIAL",
      valence |-> <<Scale>>, level |-> "policy", sources |-> <<"s2", "s1", "s2">>,
      visit_count |-> 0, canonical_score |-> DefaultConfidence,
      traditions |-> <<"t1">>],
     [obj |-> "c", id |-> "P2", claim |-> "c2", domain |-> "UNCATEGORIZED",
      valence |-> << >>, level |-> "position", sources |-> << >>,
      visit_count |-> 0, canonical_score |-> DefaultConfidence,
      traditions |-> << >>]}

\* Edge(source_id, target_id, edge_type, weight, **kwargs) as connect builds it.
Edge(s, t, ty, w, ctx) ==
    [source_id |-> s, target_id |-> t, edge_type |-> ty, weight |-> w,
     evidence_count |-> 0, confidence |-> DefaultConfidence,
     co_occurrence |-> 0, tension |-> 0, priority_context |-> ctx,
     sources |-> << >>]

\* The arguments a caller passes to connect: <<source, target, type, weight,
\* priority_context>> (<< >> is None).
ConnectInputs ==
    {<<"P1", "P2", "IMPLIES", DefaultWeight, << >> >>,
     <<"P1", "P2", "IMPLIES", NearOne, << >> >>,
     <<"P1", "P2", "CONTRADICTS", DefaultWeight, <<"ctx">> >>}

\* ------------------------------------------------------------------ state
VARIABLES
    positions,  \* IdeologicalGraph.positions: id -> Position
    edges,      \* IdeologicalGraph.edges, in insertion order (a dict)
    walkers,    \* the Walker objects: path, choices, edges_strengthened/weakened
    last,       \* the last call: its name, arguments and return value
    disk,       \* the file save() wrote
    loaded,     \* what the last load() returned or raised
    probe,      \* the ProbeQuestion the prober generated last
    threads,    \* walk_step calls in progress: each caller's position in the code
    tree,       \* the fork tree: FORK_TREE's Fork objects, the saved file, the
                \* loaded tree and the traversal in progress
    sessions    \* IdeologicalGraph.walkers (session_id -> Walker), the clock and
                \* the number of create_walker calls

vars == <<positions, edges, walkers, last, disk, loaded, probe, threads, tree, sessions>>

\* arg is the Position object of add_position, the edge id of connect and the
\* position id of walk_step; ret is the returned object, edge id or suggestions.
NoCall == [op |-> "none", arg |-> "", ret |-> << >>]
NoFile == [exists |-> FALSE, positions |-> << >>, edges |-> << >>]
NotLoaded == [status |-> "none", positions |-> << >>, edges |-> << >>]
\* No ProbeQuestion yet (None).
NoProbe ==
    [position_id |-> "", probe_type |-> "none",
     prediction |-> [position_id |-> "", predicted_acceptance |-> 0, uncertainty |-> 0,
                     actual_acceptance |-> << >>, was_tested |-> FALSE]]

\* Walker(user_id): empty path, choices and edge lists.
\* No walker was created; the clock shows second 0.
NoSessions == [walkers |-> << >>, clock |-> 0, created |-> 0]

\* No traversal of a fork tree is in progress.
NoRun == [op |-> "none", on |-> "none", pc |-> "idle", current |-> "",
          path |-> << >>, stack |-> << >>, count |-> 0]
\* No ForkTree was constructed, saved or loaded.
NoTree == [fork_objects |-> << >>, built |-> 0,
           file |-> [exists |-> FALSE, data |-> << >>],
           loaded_tree |-> [exists |-> FALSE, forks |-> << >>],
           run |-> NoRun]

\* No walk_step call is in progress.
NoThreads == [serialized |-> TRUE, pc |-> << >>, accepted |-> << >>, seen |-> << >>]

NewWalker == [path |-> << >>, choices |-> << >>,
              edges_strengthened |-> << >>, edges_weakened |-> << >>,
              prediction_errors |-> << >>]

Init ==
    /\ positions = << >>
    /\ edges = << >>
    /\ walkers = [w \in Walkers |-> NewWalker]
    /\ last = NoCall
    /\ disk = NoFile
    /\ loaded = NotLoaded
    /\ probe = NoProbe
    /\ threads = NoThreads
    /\ tree = NoTree
    /\ sessions = NoSessions

\* ------------------------------------------------------------- Edge, Position
\* Edge.id: f"{source_id}->{target_id}:{edge_type.value}".
EdgeId(e) == e.source_id \o "->" \o e.target_id \o ":" \o EdgeType[e.edge_type]

Contains(seq, x) == \E i \in 1..Len(seq) : seq[i] = x

\* The index of the edge stored under key k (0 when none): self.edges.get(k).
EdgeIndex(es, k) ==
    IF \E i \in 1..Len(es) : EdgeId(es[i]) = k
    THEN CHOOSE i \in 1..Len(es) : EdgeId(es[i]) = k
    ELSE 0

\* Edge.strengthen without the damping factor (1 - weight).
strengthenUndamped(e, num, den) ==
    [e EXCEPT !.weight = RoundDiv(e.weight * den + num * Scale, den),
              !.co_occurrence = e.co_occurrence + 1]

\* Edge.strengthen(amount), amount = num/den.
strengthen(e, num, den) ==
    [e EXCEPT !.weight = Min(Scale, RoundDiv(e.weight * den + num * (Scale - e.weight), den)),
              !.co_occurrence = e.co_occurrence + 1]

\* Edge.weaken(amount), amount = num/den.
weaken(e, num, den) ==
    [e EXCEPT !.weight = Max(0, RoundDiv(e.weight * den - num * e.weight, den))]

\* Position.add_source: append unless an equal source is in the list.
add_source(p, s) ==
    IF Contains(p.sources, s) THEN p ELSE [p EXCEPT !.sources = Append(p.sources, s)]

\* record_visit that counts a position's first visit only.
record_first_visit(p) ==
    IF p.visit_count = 0 THEN [p EXCEPT !.visit_count = 1] ELSE p

\* Position.record_visit.
record_visit(p) == [p EXCEPT !.visit_count = p.visit_count + 1]

\* for source in srcs: existing.add_source(source)
RECURSIVE MergeSources(_, _)
MergeSources(p, srcs) ==
    IF srcs = << >> THEN p
    ELSE MergeSources(add_source(p, Head(srcs)), Tail(srcs))

\* ------------------------------------------------------- graph operations
\* add_position that overwrites the stored position.
add_position_replacing(ps, position) ==
    [graph |-> [id \in (DOMAIN ps) \cup {position.id} |->
                   IF id = position.id THEN position ELSE ps[id]],
     ret |-> position.obj]

\* IdeologicalGraph.add_position: the positions after the call, and the
\* object returned.
add_position(ps, position) ==
    IF position.id \in DOMAIN ps
    THEN [graph |-> [ps EXCEPT ![position.id] = MergeSources(ps[position.id], position.sources)],
          ret |-> ps[position.id].obj]
    ELSE [graph |-> [id \in (DOMAIN ps) \cup {position.id} |->
                        IF id = position.id THEN position ELSE ps[id]],
          ret |-> position.obj]

\* add_edge that appends without looking the id up.
add_edge_appending(es, edge) == Append(es, edge)

\* IdeologicalGraph.add_edge: the edges after the call.
add_edge(es, edge) ==
    LET i == EdgeIndex(es, EdgeId(edge))
    IN  IF i # 0
        THEN [es EXCEPT ![i] = strengthen(es[i], LearningRateNum, LearningRateDen)]
        ELSE Append(es, edge)

\* IdeologicalGraph.connect: builds the Edge and calls add_edge.
connect(es, s, t, ty, w, ctx) == add_edge(es, Edge(s, t, ty, w, ctx))

\* IdeologicalGraph.get_edge(source_id, target_id) with no edge_type: the index
\* of the first stored edge between the two positions, 0 when there is none.
get_edge(es, s, t) ==
    IF \E i \in 1..Len(es) : es[i].source_id = s /\ es[i].target_id = t
    THEN CHOOSE i \in 1..Len(es) :
            /\ es[i].source_id = s /\ es[i].target_id = t
            /\ \A j \in 1..(i - 1) : ~(es[j].source_id = s /\ es[j].target_id = t)
    ELSE 0

\* IdeologicalGraph.implies: the targets of the IMPLIES edges from pid, in
\* edge order.
implies(ps, es, pid) ==
    LET from == SelectSeq(es, LAMBDA e : e.source_id = pid /\ e.edge_type = "IMPLIES"
                                          /\ e.target_id \in DOMAIN ps)
    IN  [i \in 1..Len(from) |-> from[i].target_id]

\* IdeologicalGraph.contradicts: the other end of every CONTRADICTS edge at
\* pid, in edge order.
contradicts(ps, es, pid) ==
    LET at == SelectSeq(es, LAMBDA e :
                  /\ e.edge_type = "CONTRADICTS"
                  /\ \/ e.source_id = pid /\ e.target_id \in DOMAIN ps
                     \/ e.target_id = pid /\ e.source_id \in DOMAIN ps)
    IN  [i \in 1..Len(at) |->
            IF at[i].source_id = pid /\ at[i].target_id \in DOMAIN ps
            THEN at[i].target_id ELSE at[i].source_id]

\* The ids IdeologicalGraph.neighbors collects in its set.
neighbor_ids(ps, es, pid) ==
    {id \in DOMAIN ps : \E i \in 1..Len(es) :
        \/ es[i].source_id = pid /\ es[i].target_id = id
        \/ es[i].target_id = pid /\ es[i].source_id = id}

\* The orders in which a Python set may be iterated.
RECURSIVE Orders(_)
Orders(S) ==
    IF S = {} THEN {<< >>}
    ELSE UNION {{<<x>> \o o : o \in Orders(S \ {x})} : x \in S}

\* The iteration orders of the neighbour set that walk_step's loop can tell
\* apart: the neighbours it skips (on the path or already listed) are put
\* first in one order, the others follow in every order.
NeighborOrders(S, next, path) ==
    LET skipped == {id \in S : Contains(path, id) \/ Contains(next, id)}
        front == CHOOSE o \in Orders(skipped) : TRUE
    IN  {front \o o : o \in Orders(S \ skipped)}

\* The exploration loop without its "not in walker.path" test.
RECURSIVE Explore_revisiting(_, _, _)
Explore_revisiting(next, order, path) ==
    IF order = << >> THEN next
    ELSE Explore_revisiting(IF ~Contains(next, Head(order))
                            THEN Append(next, Head(order)) ELSE next,
                            Tail(order), path)

\* for neighbor in neighbors: append when not on the path and not in the list.
RECURSIVE Explore(_, _, _)
Explore(next, order, path) ==
    IF order = << >> THEN next
    ELSE Explore(IF ~Contains(path, Head(order)) /\ ~Contains(next, Head(order))
                 THEN Append(next, Head(order)) ELSE next,
                 Tail(order), path)

\* Walker.visit that appends without looking for the id in the path.
visit_appending(path, pid) == Append(path, pid)

\* Walker.visit.
visit(path, pid) == IF Contains(path, pid) THEN path ELSE Append(path, pid)

\* Walker.strengthen_edge / Walker.weaken_edge: append once.
AppendOnce(seq, x) == IF Contains(seq, x) THEN seq ELSE Append(seq, x)

\* The accepted branch that leaves the edge as it found it.
accept_choice_unlearned(es, wk, prev, pid, i) == [edges |-> es, walker |-> wk]

\* _update_edges_from_choice, choice.accepted: i is the index get_edge found
\* (0 for None).
accept_choice(es, wk, prev, pid, i) ==
    IF i # 0
    THEN [edges |-> [es EXCEPT ![i] = strengthen(es[i], LearningRateNum, LearningRateDen)],
          walker |-> [wk EXCEPT !.edges_strengthened = AppendOnce(@, EdgeId(es[i]))]]
    ELSE [edges |-> connect(es, prev, pid, "IMPLIES", CoOccurrenceWeight, << >>),
          walker |-> [wk EXCEPT !.edges_strengthened =
                         AppendOnce(@, EdgeId(Edge(prev, pid, "IMPLIES", CoOccurrenceWeight, << >>)))]]

\* The rejected branch that removes the implication instead of weakening it.
reject_choice_pruning(es, wk, i) ==
    IF i # 0 /\ es[i].edge_type = "IMPLIES"
    THEN [edges |-> SubSeq(es, 1, i - 1) \o SubSeq(es, i + 1, Len(es)),
          walker |-> [wk EXCEPT !.edges_weakened = AppendOnce(@, EdgeId(es[i]))]]
    ELSE [edges |-> es, walker |-> wk]

\* _update_edges_from_choice, not choice.accepted.
reject_choice(es, wk, i) ==
    IF i # 0 /\ es[i].edge_type = "IMPLIES"
    THEN [edges |-> [es EXCEPT ![i] = weaken(es[i], LearningRateNum, LearningRateDen)],
          walker |-> [wk EXCEPT !.edges_weakened = AppendOnce(@, EdgeId(es[i]))]]
    ELSE [edges |-> es, walker |-> wk]

\* _update_edges_from_choice that learns from a rejection as from an
\* acceptance.
update_edges_from_choice_always(es, wk, pid, accepted) ==
    IF Len(wk.path) < 2 THEN [edges |-> es, walker |-> wk]
    ELSE accept_choice(es, wk, wk.path[Len(wk.path) - 1], pid,
                       get_edge(es, wk.path[Len(wk.path) - 1], pid))

\* IdeologicalGraph._update_edges_from_choice: the edges and the walker after it.
\* wk is the walker after visit and record_choice.
update_edges_from_choice(es, wk, pid, accepted) ==
    IF Len(wk.path) < 2 THEN [edges |-> es, walker |-> wk]
    ELSE
      LET prev == wk.path[Len(wk.path) - 1]
          i == get_edge(es, prev, pid)
      IN  IF accepted THEN accept_choice(es, wk, prev, pid, i)
                      ELSE reject_choice(es, wk, i)

\* The position walk_step resolves: get_position(position_id) is not None.
Known(ps, pid) == pid \in DOMAIN ps

\* walk_step that records the visit before it resolves the position.
walk_step_missing_visiting(wk, pid) ==
    [walker |-> [wk EXCEPT !.path = visit(@, pid)], ret |-> << >>]

\* walk_step on an id get_position does not resolve: "return []".
walk_step_missing(wk, pid) == [walker |-> wk, ret |-> << >>]

\* ------------------------------------------------------- basin suggestions
\* Walker.positions_accepted / Walker.positions_rejected: the position ids of
\* the accepted / rejected choices, in order, repeats included.
positions_accepted(wk) ==
    LET cs == SelectSeq(wk.choices, LAMBDA c : c.accepted)
    IN  [i \in 1..Len(cs) |-> cs[i].position_id]
positions_rejected(wk) ==
    LET cs == SelectSeq(wk.choices, LAMBDA c : ~c.accepted)
    IN  [i \in 1..Len(cs) |-> cs[i].position_id]

\* set(seq).
SetOf(seq) == {seq[i] : i \in 1..Len(seq)}

\* _estimate_basin_distance that returns the closeness instead of 1 - closeness.
estimate_basin_closeness(es, pid, accepted) ==
    IF accepted = {} THEN Scale \div 2
    ELSE LET connections == Cardinality({a \in accepted : get_edge(es, a, pid) # 0})
                            + Cardinality({a \in accepted : get_edge(es, pid, a) # 0})
         IN  RoundDiv(connections * Scale, 2 * Cardinality(accepted))

\* IdeologicalGraph._estimate_basin_distance(position, accepted).
estimate_basin_distance(es, pid, accepted) ==
    IF accepted = {} THEN Scale \div 2
    ELSE LET connections == Cardinality({a \in accepted : get_edge(es, a, pid) # 0})
                            + Cardinality({a \in accepted : get_edge(es, pid, a) # 0})
         IN  Scale - RoundDiv(connections * Scale, 2 * Cardinality(accepted))

\* list.sort(key, reverse=True) is stable: x goes behind every element whose
\* key is not smaller.  seq holds <<id, key>> pairs.
RECURSIVE SortDescending(_)
SortDescending(seq) ==
    IF seq = << >> THEN << >>
    ELSE LET front == SortDescending(SubSeq(seq, 1, Len(seq) - 1))
             x == seq[Len(seq)]
             k == Cardinality({i \in 1..Len(front) : front[i][2] >= x[2]})
         IN  SubSeq(front, 1, k) \o <<x>> \o SubSeq(front, k + 1, Len(front))

\* IdeologicalGraph.suggest_outside_basin(walker, n): the ids of the positions
\* returned.  order is the insertion order of graph.positions.
suggest_outside_basin(order, ps, es, wk, n) ==
    LET visited == SetOf(wk.path)
        accepted == SetOf(positions_accepted(wk))
        implied_by_accepted == UNION {SetOf(implies(ps, es, a)) : a \in accepted}
        kept == SelectSeq(order, LAMBDA id : id \notin visited /\ id \notin implied_by_accepted)
        candidates == [i \in 1..Len(kept) |->
                          <<kept[i], estimate_basin_distance(es, kept[i], accepted)>>]
        sorted == SortDescending(candidates)
    IN  [i \in 1..Min(n, Len(sorted)) |-> sorted[i][1]]

\* ---------------------------------------------------------------- probing
\* sum(e.weight for e in seq)
RECURSIVE SumWeights(_)
SumWeights(seq) == IF seq = << >> THEN 0 ELSE Head(seq).weight + SumWeights(Tail(seq))

\* Prediction(position_id, predicted_acceptance, uncertainty); the reasoning
\* text is left out.  actual_acceptance << >> is None.
Prediction(pid, predicted, uncertainty) ==
    [position_id |-> pid, predicted_acceptance |-> predicted, uncertainty |-> uncertainty,
     actual_acceptance |-> << >>, was_tested |-> FALSE]

\* The signals predict_position combines once the walker has choices.
predict_from_signals(es, wk, pid) ==
    LET accepted == SetOf(positions_accepted(wk))
        rejected == SetOf(positions_rejected(wk))
        imp == SelectSeq(es, LAMBDA e : e.target_id = pid /\ e.edge_type = "IMPLIES"
                                         /\ e.source_id \in accepted)
        con == SelectSeq(es, LAMBDA e :
                   /\ e.edge_type = "CONTRADICTS"
                   /\ \/ e.source_id = pid /\ e.target_id \in accepted
                      \/ e.target_id = pid /\ e.source_id \in accepted)
        rejected_similar == Cardinality({r \in rejected : get_edge(es, r, pid) # 0})
        total_signals == Len(imp) + Len(con) + rejected_similar
        acceptance_push == RoundDiv(SumWeights(imp), Max(Len(imp), 1))
        rejection_push == RoundDiv(SumWeights(con), Max(Len(con), 1))
        predicted == Scale \div 2 + RoundDiv((acceptance_push - rejection_push) * 4, 10)
    IN  IF total_signals = 0
        THEN Prediction(pid, Scale \div 2, RoundDiv(8 * Scale, 10))
        ELSE Prediction(pid, Max(0, Min(Scale, predicted)),
                        RoundDiv(10 * Scale, 10 + 3 * total_signals))

\* predict_position without the "no data" return.
predict_position_unguarded(es, wk, pid) == predict_from_signals(es, wk, pid)

\* AdaptiveProber.predict_position(walker, position).
predict_position(es, wk, pid) ==
    IF positions_accepted(wk) = << >> /\ positions_rejected(wk) = << >>
    THEN Prediction(pid, Scale \div 2, Scale)
    ELSE predict_from_signals(es, wk, pid)

\* ---------------------------------------------------------------- tension
\* state.attitudes[id] = v on a dict kept as <<id, value>> entries in insertion
\* order: an existing key keeps its place.
SetAttitude(att, id, v) ==
    IF \E i \in 1..Len(att) : att[i].id = id
    THEN [i \in 1..Len(att) |-> IF att[i].id = id THEN [id |-> id, value |-> v] ELSE att[i]]
    ELSE Append(att, [id |-> id, value |-> v])

\* for choice in walker.choices: attitudes[choice.position_id] = sign * confidence
RECURSIVE AttitudesOf(_)
AttitudesOf(choices) ==
    IF choices = << >> THEN << >>
    ELSE LET c == choices[Len(choices)]
         IN  SetAttitude(AttitudesOf(SubSeq(choices, 1, Len(choices) - 1)), c.position_id,
                         IF c.accepted THEN c.confidence ELSE 0 - c.confidence)

AttitudeValue(att, id) == (CHOOSE i \in 1..Len(att) : att[i].id = id)

\* _get_relation_sign that reads the attitudes only.
get_relation_sign_inferred(att, a, b, es) ==
    IF (\E i \in 1..Len(att) : att[i].id = a) /\ (\E i \in 1..Len(att) : att[i].id = b)
    THEN IF att[AttitudeValue(att, a)].value * att[AttitudeValue(att, b)].value > 0 THEN 1 ELSE -1
    ELSE 0

\* WeightedBalanceState._get_relation_sign(a, b, edges): 1, -1, or 0 for None.
get_relation_sign(att, a, b, es) ==
    LET signed == SelectSeq(es, LAMBDA e :
                      /\ \/ e.source_id = a /\ e.target_id = b
                         \/ e.source_id = b /\ e.target_id = a
                      /\ e.edge_type \in {"CONTRADICTS", "IMPLIES"})
    IN  IF signed # << >>
        THEN IF signed[1].edge_type = "CONTRADICTS" THEN -1 ELSE 1
        ELSE IF (\E i \in 1..Len(att) : att[i].id = a) /\ (\E i \in 1..Len(att) : att[i].id = b)
             THEN IF att[AttitudeValue(att, a)].value * att[AttitudeValue(att, b)].value > 0
                  THEN 1 ELSE -1
             ELSE 0

\* The product sign_ab * sign_bc * sign_ca of the triad at indices t of the
\* attitudes; 0 when a sign is None.
TriadProduct(att, es, t) ==
    get_relation_sign(att, att[t[1]].id, att[t[2]].id, es)
    * get_relation_sign(att, att[t[2]].id, att[t[3]].id, es)
    * get_relation_sign(att, att[t[3]].id, att[t[1]].id, es)

\* WeightedBalanceState.calculate_sgm(edges).
calculate_sgm(att, es) ==
    IF Len(att) < 3 THEN 0
    ELSE LET triads == {t \in (1..Len(att)) \X (1..Len(att)) \X (1..Len(att)) :
                           t[1] < t[2] /\ t[2] < t[3]}
             scored == {t \in triads : TriadProduct(att, es, t) # 0}
             balanced == Cardinality({t \in scored : TriadProduct(att, es, t) > 0})
             imbalanced == Cardinality(scored) - balanced
         IN  IF balanced + imbalanced = 0 THEN 0
             ELSE RoundDiv((balanced - imbalanced) * Scale, balanced + imbalanced)

\* sum(abs(v) for v in attitudes.values())
RECURSIVE SumAbs(_)
SumAbs(att) ==
    IF att = << >> THEN 0
    ELSE (IF Head(att).value < 0 THEN 0 - Head(att).value ELSE Head(att).value) + SumAbs(Tail(att))

\* WeightedBalanceState.calculate_extremeness().
calculate_extremeness(att) == IF att = << >> THEN 0 ELSE RoundDiv(SumAbs(att), Len(att))

\* WeightedBalanceState.calculate_constraint(edges).
calculate_constraint(att, es) ==
    IF Len(att) < 2 THEN 0
    ELSE LET ids == {att[i].id : i \in 1..Len(att)}
             connection_count == Len(SelectSeq(es, LAMBDA e :
                                     e.source_id \in ids /\ e.target_id \in ids))
         IN  RoundDiv(2 * connection_count * Scale, Len(att) * (Len(att) - 1))

\* TensionAnalyzer.get_walker_balance_state(walker): the state it returns.
get_walker_balance_state(es, wk) ==
    LET att == AttitudesOf(wk.choices)
    IN  [attitudes |-> att, sgm |-> calculate_sgm(att, es),
         extremeness |-> calculate_extremeness(att),
         constraint |-> calculate_constraint(att, es)]

\* ------------------------------------------------------------------ voids
\* The ratio actual / expected, without the "1.0 -".
void_ratio_filled(actual, expected) ==
    IF expected > 0 THEN RoundDiv(actual * Scale * Scale, expected) ELSE 0

\* void_ratio = 1.0 - (actual / expected) if expected > 0 else 0; expected is
\* on the grid, actual is a count.
void_ratio(actual, expected) ==
    IF expected > 0 THEN Scale - RoundDiv(actual * Scale * Scale, expected) ELSE 0

\* expected += source.visit_count * edge.weight over the incoming edges whose
\* source the graph holds.
RECURSIVE ExpectedVisits(_, _)
ExpectedVisits(ps, incoming) ==
    IF incoming = << >> THEN 0
    ELSE (IF Head(incoming).source_id \in DOMAIN ps
          THEN ps[Head(incoming).source_id].visit_count * Head(incoming).weight ELSE 0)
         + ExpectedVisits(ps, Tail(incoming))

\* AttractorDetector._hypothesize_void_reasons(position, incoming_edges).
hypothesize_void_reasons(ps, es, pid, incoming) ==
    LET contradictions == contradicts(ps, es, pid)
        costly == \E i \in 1..Len(contradictions) : ps[contradictions[i]].visit_count > 10
        source_domains == {Domain[ps[incoming[i].source_id].domain] :
                              i \in {j \in 1..Len(incoming) : incoming[j].source_id \in DOMAIN ps}}
        reasons == (IF costly THEN <<"socially_costly">> ELSE << >>)
                   \o (IF Cardinality(source_domains) >= 3 THEN <<"rare_combination">> ELSE << >>)
                   \o (IF 10 * ps[pid].canonical_score < 3 * Scale
                       THEN <<"unarticulated">> ELSE << >>)
    IN  IF reasons = << >> THEN <<"unknown">> ELSE reasons

\* AttractorDetector.detect_voids(min_expected, min_void_ratio): the Void
\* objects returned.  order is the insertion order of graph.positions.
detect_voids(order, ps, es, min_expected, min_void_ratio) ==
    LET Incoming(pid) == SelectSeq(es, LAMBDA e : e.target_id = pid)
        Expected(pid) == ExpectedVisits(ps, Incoming(pid))
        Sources(pid) == SelectSeq(Incoming(pid), LAMBDA e : e.source_id \in DOMAIN ps)
        kept == SelectSeq(order, LAMBDA pid :
                    /\ Incoming(pid) # << >>
                    /\ ~(Expected(pid) < min_expected * Scale)
                    /\ void_ratio(ps[pid].visit_count, Expected(pid)) >= min_void_ratio)
        voids == [i \in 1..Len(kept) |->
                    <<[position_id |-> kept[i],
                       position_claim |-> ps[kept[i]].claim,
                       expected_from |-> [j \in 1..Len(Sources(kept[i])) |->
                                             Sources(kept[i])[j].source_id],
                       expected_visitors |-> Expected(kept[i]) \div Scale,
                       actual_visitors |-> ps[kept[i]].visit_count,
                       void_ratio |-> void_ratio(ps[kept[i]].visit_count, Expected(kept[i])),
                       possible_reasons |-> hypothesize_void_reasons(ps, es, kept[i],
                                                                     Incoming(kept[i]))],
                      void_ratio(ps[kept[i]].visit_count, Expected(kept[i]))>>]
        sorted == SortDescending(voids)
    IN  [i \in 1..Len(sorted) |-> sorted[i][1]]

\* ------------------------------------------------------------ persistence
UnknownEnum == "bogus"

\* The data IdeologicalGraph.save writes (json.dumps of it).
save(ps, es) ==
    [exists |-> TRUE,
     positions |-> [pid \in DOMAIN ps |->
        [id |-> ps[pid].id, claim |-> ps[pid].claim, domain |-> Domain[ps[pid].domain],
         valence |-> ps[pid].valence, level |-> ps[pid].level,
         visit_count |-> ps[pid].visit_count,
         canonical_score |-> ps[pid].canonical_score,
         traditions |-> ps[pid].traditions]],
     edges |-> [i \in 1..Len(es) |->
        [source_id |-> es[i].source_id, target_id |-> es[i].target_id,
         edge_type |-> EdgeType[es[i].edge_type], weight |-> es[i].weight,
         evidence_count |-> es[i].evidence_count, confidence |-> es[i].confidence,
         co_occurrence |-> es[i].co_occurrence, tension |-> es[i].tension]]]

\* The Position load builds from one entry of the file.
LoadedPosition(pdata) ==
    [obj |-> "loaded:" \o pdata.id, id |-> pdata.id, claim |-> pdata.claim,
     domain |-> DomainOf(pdata.domain), valence |-> pdata.valence, level |-> pdata.level,
     sources |-> << >>, visit_count |-> pdata.visit_count,
     canonical_score |-> pdata.canonical_score, traditions |-> pdata.traditions]

\* The Edge load builds from one entry of the file.
LoadedEdge(edata) ==
    [source_id |-> edata.source_id, target_id |-> edata.target_id,
     edge_type |-> EdgeTypeOf(edata.edge_type), weight |-> edata.weight,
     evidence_count |-> edata.evidence_count, confidence |-> edata.confidence,
     co_occurrence |-> edata.co_occurrence, tension |-> edata.tension,
     priority_context |-> << >>, sources |-> << >>]

\* IdeologicalGraph.load: the graph it returns, or the ValueError an Enum constructor raised
\* (the graph under construction is then dropped).
load(file) ==
    IF ~file.exists THEN [status |-> "ok", positions |-> << >>, edges |-> << >>]
    ELSE LET ps == [pid \in DOMAIN file.positions |-> LoadedPosition(file.positions[pid])]
             es == [i \in 1..Len(file.edges) |-> LoadedEdge(file.edges[i])]
         IN  IF \/ \E pid \in DOMAIN ps : ps[pid].domain = ValueError
                \/ \E i \in 1..Len(es) : es[i].edge_type = ValueError
             THEN [status |-> "raised", positions |-> << >>, edges |-> << >>]
             ELSE [status |-> "ok", positions |-> ps, edges |-> es]

AddPosition(position) ==
    LET r == add_position(positions, position)
    IN  /\ positions' = r.graph
        /\ last' = [op |-> "add_position", arg |-> position.obj, ret |-> <<r.ret>>]
        /\ UNCHANGED <<edges, walkers, disk, loaded, probe, threads, tree, sessions>>

Connect(in) ==
    LET e == Edge(in[1], in[2], in[3], in[4], in[5])
        i == EdgeIndex(edges, EdgeId(e))
    IN  /\ i # 0 => edges[i].co_occurrence < MaxCoOccurrence
        /\ edges' = connect(edges, in[1], in[2], in[3], in[4], in[5])
        /\ last' = [op |-> "connect", arg |-> EdgeId(e), ret |-> <<EdgeId(e)>>]
        /\ UNCHANGED <<positions, walkers, disk, loaded, probe, threads, tree, sessions>>

\* IdeologicalGraph.walk_step(walker, position_id, accepted, confidence).
WalkStep(w, pid, accepted, confidence) ==
    /\ Len(walkers[w].choices) < MaxChoices
    /\ IF ~Known(positions, pid)
       THEN /\ walkers' = [walkers EXCEPT ![w] = walk_step_missing(@, pid).walker]
            /\ last' = [op |-> "walk_step", arg |-> pid,
                        ret |-> walk_step_missing(walkers[w], pid).ret]
            /\ UNCHANGED <<positions, edges, disk, loaded, probe, threads, tree, sessions>>
       ELSE LET wk == [walkers[w] EXCEPT
                          !.path = visit(@, pid),
                          !.choices = Append(@, [position_id |-> pid, accepted |-> accepted,
                                                 confidence |-> confidence])]
                ps == [positions EXCEPT ![pid] = record_visit(@)]
                upd == update_edges_from_choice(edges, wk, pid, accepted)
                first == IF accepted THEN implies(ps, upd.edges, pid)
                                     ELSE contradicts(ps, upd.edges, pid)
            IN  /\ positions' = ps
                /\ edges' = upd.edges
                /\ walkers' = [walkers EXCEPT ![w] = upd.walker]
                /\ \E order \in NeighborOrders(neighbor_ids(ps, upd.edges, pid),
                                                 first, upd.walker.path) :
                      last' = [op |-> "walk_step", arg |-> pid,
                               ret |-> SubSeq(Explore(first, order, upd.walker.path), 1,
                                              Min(SuggestionLimit,
                                                  Len(Explore(first, order, upd.walker.path))))]
                /\ UNCHANGED <<disk, loaded, probe, threads, tree, sessions>>

Next ==
    \/ \E position \in PositionInputs : AddPosition(position)
    \/ \E in \in ConnectInputs : Connect(in)
    \/ \E w \in Walkers, pid \in PosIds, accepted \in BOOLEAN, confidence \in Confidences :
          WalkStep(w, pid, accepted, confidence)

Spec == Init /\ [][Next]_vars

\* graph.save(path).
Save ==
    /\ disk' = save(positions, edges)
    /\ last' = [op |-> "save", arg |-> "", ret |-> << >>]
    /\ UNCHANGED <<positions, edges, walkers, loaded, probe, threads, tree, sessions>>

\* The file is edited outside the program: one domain string, or one edge_type
\* string, becomes a string no enum member has.
EditFile ==
    /\ disk.exists
    /\ \/ /\ \A pid \in DOMAIN disk.positions : disk.positions[pid].domain # UnknownEnum
          /\ \E pid \in DOMAIN disk.positions :
                disk' = [disk EXCEPT !.positions[pid].domain = UnknownEnum]
       \/ /\ \A i \in 1..Len(disk.edges) : disk.edges[i].edge_type # UnknownEnum
          /\ \E i \in 1..Len(disk.edges) :
                disk' = [disk EXCEPT !.edges[i].edge_type = UnknownEnum]
    /\ last' = [op |-> "edit_file", arg |-> "", ret |-> << >>]
    /\ UNCHANGED <<positions, edges, walkers, loaded, probe, threads, tree, sessions>>

\* IdeologicalGraph.load(path).
Load ==
    /\ loaded' = load(disk)
    /\ last' = [op |-> "load", arg |-> "", ret |-> << >>]
    /\ UNCHANGED <<positions, edges, walkers, disk, probe, threads, tree, sessions>>

\* A session that populates the graph and then saves it (src/demo.py ends with
\* graph.save); the file is loaded back, possibly after it was edited.
NextPersist ==
    \/ /\ ~disk.exists
       /\ loaded = NotLoaded
       /\ \/ \E position \in PositionInputs : AddPosition(position)
          \/ \E in \in ConnectInputs : Connect(in)
    \/ Save
    \/ EditFile
    \/ Load

SpecPersist == Init /\ [][NextPersist]_vars

\* ------------------------------------------------- direct use of the Edge API
\* Weights a caller passes to connect(): the argument is stored as given.
SuppliedWeights == {0 - (Scale \div 2), DefaultWeight, Scale, (3 * Scale) \div 2}
\* Evidence references a caller passes to Edge.add_evidence.
EvidenceSources == {"u1", "u2"}

\* Edge.add_evidence(source).
add_evidence(e, source) ==
    IF Contains(e.sources, source) THEN e
    ELSE LET n == Len(e.sources) + 1
         IN  [e EXCEPT !.sources = Append(e.sources, source),
                       !.evidence_count = n,
                       !.confidence = Min(Scale, RoundDiv(3 * Scale + n * Scale, 10))]

\* Edge.record_tension(): tension += 1.
record_tension(e) == [e EXCEPT !.tension = e.tension + Scale]

\* connect(source, target, edge_type, weight) with a weight of the caller's choice.
ConnectSupplied(s, t, ty, w) ==
    LET e == Edge(s, t, ty, w, << >>)
        i == EdgeIndex(edges, EdgeId(e))
    IN  /\ i # 0 => edges[i].co_occurrence < MaxCoOccurrence
        /\ edges' = connect(edges, s, t, ty, w, << >>)
        /\ last' = [op |-> "connect", arg |-> EdgeId(e), ret |-> <<EdgeId(e)>>]
        /\ UNCHANGED <<positions, walkers, disk, loaded, probe, threads, tree, sessions>>

\* edge.add_evidence(source) on a stored edge.
AddEvidence(i, source) ==
    /\ edges' = [edges EXCEPT ![i] = add_evidence(@, source)]
    /\ last' = [op |-> "add_evidence", arg |-> EdgeId(edges[i]), ret |-> << >>]
    /\ UNCHANGED <<positions, walkers, disk, loaded, probe, threads, tree, sessions>>

\* edge.record_tension() on a stored edge.
RecordTension(i) ==
    /\ edges[i].tension < MaxTension * Scale
    /\ edges' = [edges EXCEPT ![i] = record_tension(@)]
    /\ last' = [op |-> "record_tension", arg |-> EdgeId(edges[i]), ret |-> << >>]
    /\ UNCHANGED <<positions, walkers, disk, loaded, probe, threads, tree, sessions>>

NextEdge ==
    \/ \E ty \in {"IMPLIES", "CONTRADICTS"}, w \in SuppliedWeights :
          ConnectSupplied("P1", "P2", ty, w)
    \/ \E i \in 1..Len(edges), source \in EvidenceSources : AddEvidence(i, source)
    \/ \E i \in 1..Len(edges) : RecordTension(i)

SpecEdge == Init /\ [][NextEdge]_vars

\* ------------------------------------------- a populated graph and its walker
\* A graph as a session builds it before walking (src/demo.py: add_position
\* and connect calls): a hub H with five neighbours.  HubIds is the insertion
\* order of graph.positions; L5 was visited before (visit_count is a
\* constructor argument of Position and a field of the saved file).
HubIds == <<"H", "L1", "L2", "L3", "L4", "L5">>

HubPosition(id) ==
    [obj |-> id, id |-> id, claim |-> id, domain |-> "UNCATEGORIZED",
     valence |-> << >>, level |-> "position", sources |-> << >>,
     visit_count |-> IF id = "L5" THEN 100 ELSE 0,
     canonical_score |-> DefaultConfidence, traditions |-> << >>]

\* The connect calls of the session, in order: <<source, target, type>>, each
\* with the default weight.
HubEdges ==
    << <<"H", "L1", "IMPLIES">>, <<"H", "L2", "IMPLIES">>,
       <<"L1", "L2", "CONTRADICTS">>, <<"L3", "H", "CONTRADICTS">>,
       <<"H", "L4", "CONTRADICTS">>, <<"L5", "H", "ASSOCIATION">>,
       <<"H", "L3", "CONTRADICTS">> >>

\* for p in inputs: graph.add_position(p)
RECURSIVE AddAll(_, _)
AddAll(ps, ids) ==
    IF ids = << >> THEN ps
    ELSE AddAll(add_position(ps, HubPosition(Head(ids))).graph, Tail(ids))

\* for (s, t, ty) in ins: graph.connect(s, t, ty)
RECURSIVE ConnectAll(_, _)
ConnectAll(es, ins) ==
    IF ins = << >> THEN es
    ELSE ConnectAll(connect(es, Head(ins)[1], Head(ins)[2], Head(ins)[3], DefaultWeight, << >>),
                    Tail(ins))

\* The positions the walker of the populated graph is stepped through.
HubWalkIds == {"H", "L1", "L2", "L4"}

InitHub ==
    /\ positions = AddAll(<< >>, HubIds)
    /\ edges = ConnectAll(<< >>, HubEdges)
    /\ walkers = [w \in Walkers |-> NewWalker]
    /\ last = NoCall
    /\ disk = NoFile
    /\ loaded = NotLoaded
    /\ probe = NoProbe
    /\ threads = NoThreads
    /\ tree = NoTree
    /\ sessions = NoSessions

\* The n a caller passes to suggest_outside_basin (3 by default).
BasinCounts == {0, 2, 3}

\* graph.suggest_outside_basin(walker, n).
SuggestOutsideBasin(w, n) ==
    /\ last' = [op |-> "suggest_outside_basin", arg |-> <<w, n>>,
                ret |-> suggest_outside_basin(HubIds, positions, edges, walkers[w], n)]
    /\ UNCHANGED <<positions, edges, walkers, disk, loaded, probe, threads, tree, sessions>>

\* prober.predict_position(walker, graph.positions[pid]).
PredictPosition(w, pid) ==
    /\ last' = [op |-> "predict_position", arg |-> <<w, pid>>,
                ret |-> <<predict_position(edges, walkers[w], pid)>>]
    /\ UNCHANGED <<positions, edges, walkers, disk, loaded, probe, threads, tree, sessions>>

\* analyzer.get_walker_balance_state(walker).
GetWalkerBalanceState(w) ==
    /\ last' = [op |-> "get_walker_balance_state", arg |-> <<w>>,
                ret |-> <<get_walker_balance_state(edges, walkers[w])>>]
    /\ UNCHANGED <<positions, edges, walkers, disk, loaded, probe, threads, tree, sessions>>

\* The thresholds a caller passes to detect_voids (5 and 0.7 by default).
VoidMinExpected == {0, 1}
VoidMinRatios == {(7 * Scale) \div 10, Scale}

\* detector.detect_voids(min_expected, min_void_ratio).
DetectVoids(min_expected, min_void_ratio) ==
    /\ last' = [op |-> "detect_voids", arg |-> <<min_expected, min_void_ratio>>,
                ret |-> detect_voids(HubIds, positions, edges, min_expected, min_void_ratio)]
    /\ UNCHANGED <<positions, edges, walkers, disk, loaded, probe, threads, tree, sessions>>

NextHub ==
    \/ \E min_expected \in VoidMinExpected, min_void_ratio \in VoidMinRatios :
          DetectVoids(min_expected, min_void_ratio)
    \/ \E w \in Walkers : GetWalkerBalanceState(w)
    \/ \E w \in Walkers, pid \in DOMAIN positions : PredictPosition(w, pid)
    \/ \E w \in Walkers, n \in BasinCounts : SuggestOutsideBasin(w, n)
    \/ \E w \in Walkers, pid \in HubWalkIds, accepted \in BOOLEAN, confidence \in Confidences :
          WalkStep(w, pid, accepted, confidence)

SpecHub == InitHub /\ [][NextHub]_vars

\* -------------------------------------------------- fork poles and archetypes
\* Archetype.matches(walker, tree): fork_choices is the dict as <<fork_id,
\* expected_choice>> entries.
matches(fork_choices, wk) ==
    IF fork_choices = << >> THEN 0
    ELSE LET accepted == SetOf(positions_accepted(wk))
             sided == {i \in 1..Len(fork_choices) :
                          \/ (fork_choices[i][1] \o "_a") \in accepted
                          \/ (fork_choices[i][1] \o "_b") \in accepted}
             matched == {i \in sided :
                            IF (fork_choices[i][1] \o "_a") \in accepted
                            THEN fork_choices[i][2] = "a"
                            ELSE fork_choices[i][2] = "b"}
         IN  IF Cardinality(sided) > 0
             THEN RoundDiv(Cardinality(matched) * Scale, Cardinality(sided))
             ELSE 0

\* The two root forks of a tree, and the poles Fork.to_positions makes of a
\* fork: "<id>_a" with valence -0.5 and "<id>_b" with valence 0.5.
ForkIds == <<"f1", "f2">>
ForkPole(fork_id, pole) ==
    [obj |-> fork_id \o "_" \o pole, id |-> fork_id \o "_" \o pole,
     claim |-> "option_" \o pole, domain |-> "UNCATEGORIZED",
     valence |-> <<IF pole = "a" THEN 0 - (Scale \div 2) ELSE Scale \div 2>>,
     level |-> "position", sources |-> << >>, visit_count |-> 0,
     canonical_score |-> DefaultConfidence, traditions |-> << >>]

\* ForkTree.to_graph_positions(graph) for forks without parent: both poles
\* are added and linked by Fork.to_edge, a contradicts edge weighing the
\* fork's polarization (0.5).
RECURSIVE ForkPositions(_, _)
ForkPositions(ps, forks) ==
    IF forks = << >> THEN ps
    ELSE ForkPositions(add_position(add_position(ps, ForkPole(Head(forks), "a")).graph,
                                    ForkPole(Head(forks), "b")).graph,
                       Tail(forks))
RECURSIVE ForkEdges(_, _)
ForkEdges(es, forks) ==
    IF forks = << >> THEN es
    ELSE ForkEdges(add_edge(es, Edge(Head(forks) \o "_a", Head(forks) \o "_b",
                                     "CONTRADICTS", Scale \div 2, << >>)),
                   Tail(forks))

\* The fork_choices of the archetypes matched against the walker.
Archetypes ==
    {<< >>, << <<"f1", "b">> >>, << <<"f1", "a">>, <<"f2", "b">> >>}
\* The poles the walker is stepped through.
ForkWalkIds == {"f1_a", "f1_b", "f2_b"}

InitForks ==
    /\ positions = ForkPositions(<< >>, ForkIds)
    /\ edges = ForkEdges(<< >>, ForkIds)
    /\ walkers = [w \in Walkers |-> NewWalker]
    /\ last = NoCall
    /\ disk = NoFile
    /\ loaded = NotLoaded
    /\ probe = NoProbe
    /\ threads = NoThreads
    /\ tree = NoTree
    /\ sessions = NoSessions

\* archetype.matches(walker, tree).
Matches(fork_choices, w) ==
    /\ last' = [op |-> "matches", arg |-> <<w, fork_choices>>,
                ret |-> <<matches(fork_choices, walkers[w])>>]
    /\ UNCHANGED <<positions, edges, walkers, disk, loaded, probe, threads, tree, sessions>>

NextForks ==
    \/ \E w \in Walkers, pid \in ForkWalkIds, accepted \in BOOLEAN, confidence \in Confidences :
          WalkStep(w, pid, accepted, confidence)
    \/ \E fork_choices \in Archetypes, w \in Walkers : Matches(fork_choices, w)

SpecForks == InitForks /\ [][NextForks]_vars

\* ------------------------------------------------------- probes and responses
\* ProbeQuestion(position_id, question, prediction, probe_type); the question
\* text is left out.
ProbeQuestion(position_id, prediction, probe_type) ==
    [position_id |-> position_id, probe_type |-> probe_type, prediction |-> prediction]

\* AdaptiveProber.generate_counterfactual_probe: the first mediator or
\* confounder edge out of an accepted position, in the order of the accepted
\* list and then of the edges, whose target the walker has not been asked
\* about.  NoProbe is None.
generate_counterfactual_probe(ps, es, wk) ==
    LET accepted == positions_accepted(wk)
        Hit(i, j) == /\ es[j].source_id = accepted[i]
                     /\ es[j].edge_type \in {"MEDIATOR", "CONFOUNDER"}
                     /\ Known(ps, es[j].target_id)
                     /\ ~Contains(wk.path, es[j].target_id)
        hits == {ij \in (1..Len(accepted)) \X (1..Len(es)) : Hit(ij[1], ij[2])}
        Before(a, b) == a[1] < b[1] \/ (a[1] = b[1] /\ a[2] <= b[2])
    IN  IF hits = {} THEN NoProbe
        ELSE LET ij == CHOOSE a \in hits : \A b \in hits : Before(a, b)
                 target == es[ij[2]].target_id
             IN  ProbeQuestion(target, predict_position(es, wk, target), "counterfactual")

\* AdaptiveProber.generate_priority_probe: the first pair of accepted
\* positions of different domains, predicted at 0.5 with uncertainty 0.9.
generate_priority_probe(ps, wk) ==
    LET accepted == positions_accepted(wk)
        Hit(i, j) == /\ i < j
                     /\ Known(ps, accepted[i]) /\ Known(ps, accepted[j])
                     /\ ps[accepted[i]].domain # ps[accepted[j]].domain
        hits == {ij \in (1..Len(accepted)) \X (1..Len(accepted)) : Hit(ij[1], ij[2])}
        Before(a, b) == a[1] < b[1] \/ (a[1] = b[1] /\ a[2] <= b[2])
    IN  IF Len(accepted) < 2 \/ hits = {} THEN NoProbe
        ELSE LET ij == CHOOSE a \in hits : \A b \in hits : Before(a, b)
                 id == accepted[ij[1]] \o "_vs_" \o accepted[ij[2]]
             IN  ProbeQuestion(id, Prediction(id, Scale \div 2, RoundDiv(9 * Scale, 10)),
                               "priority")

\* predicted_acceptance > 0.5
predicted_yes(prediction) == 2 * prediction.predicted_acceptance > Scale

\* was_wrong judged with the threshold on the other side: >= 0.5.
was_wrong_at_half(prediction) ==
    IF ~prediction.was_tested \/ prediction.actual_acceptance = << >>
    THEN FALSE
    ELSE (2 * prediction.predicted_acceptance >= Scale) # prediction.actual_acceptance[1]

\* Prediction.was_wrong.
was_wrong(prediction) ==
    IF ~prediction.was_tested \/ prediction.actual_acceptance = << >>
    THEN FALSE
    ELSE predicted_yes(prediction) # prediction.actual_acceptance[1]

\* AdaptiveProber._infer_dimension: << >> is None; the two messages are kept
\* as their kind and the number or domain they mention.
infer_dimension(ps, es, wk, pq) ==
    IF ~Known(ps, pq.position_id) THEN << >>
    ELSE LET accepted == SetOf(positions_accepted(wk))
             conflicting_edges ==
                 SelectSeq(es, LAMBDA e : /\ e.target_id = pq.position_id
                                          /\ e.edge_type = "IMPLIES"
                                          /\ e.source_id \in accepted)
         IN  IF conflicting_edges # << >>
             THEN <<"implied_by_accepted", Len(conflicting_edges)>>
             ELSE <<"unexpected_in_domain", Domain[ps[pq.position_id].domain]>>

\* PredictionError(position_id, predicted, actual, prediction_confidence,
\* dimension_hint); the timestamp is left out.
PredictionError(position_id, predicted, actual, prediction_confidence, dimension_hint) ==
    [position_id |-> position_id, predicted |-> predicted, actual |-> actual,
     prediction_confidence |-> prediction_confidence, dimension_hint |-> dimension_hint]

\* AdaptiveProber.record_response(walker, probe, accepted): the probe and the
\* walker after the call.
record_response(ps, es, wk, pq, accepted) ==
    LET tested == [pq EXCEPT !.prediction.actual_acceptance = <<accepted>>,
                             !.prediction.was_tested = TRUE]
    IN  [probe |-> tested,
         walker |->
            IF was_wrong(tested.prediction)
            THEN [wk EXCEPT !.prediction_errors =
                     Append(@, PredictionError(tested.position_id,
                                               predicted_yes(tested.prediction),
                                               accepted,
                                               Scale - tested.prediction.uncertainty,
                                               infer_dimension(ps, es, wk, tested)))]
            ELSE wk]

\* A graph of three positions in two domains: E1 mediates and implies T, S1
\* contradicts T.
ProbePosition(id) ==
    [obj |-> id, id |-> id, claim |-> id,
     domain |-> IF id = "S1" THEN "SOCIAL" ELSE "ECONOMICS",
     valence |-> << >>, level |-> "position", sources |-> << >>,
     visit_count |-> 0, canonical_score |-> DefaultConfidence, traditions |-> << >>]
ProbeIds == {"E1", "S1", "T"}
ProbeEdges ==
    << <<"E1", "T", "MEDIATOR">>, <<"E1", "T", "IMPLIES">>, <<"S1", "T", "CONTRADICTS">> >>

InitProbe ==
    /\ positions = [id \in ProbeIds |-> ProbePosition(id)]
    /\ edges = ConnectAll(<< >>, ProbeEdges)
    /\ walkers = [w \in Walkers |-> NewWalker]
    /\ last = NoCall
    /\ disk = NoFile
    /\ loaded = NotLoaded
    /\ probe = NoProbe
    /\ threads = NoThreads
    /\ tree = NoTree
    /\ sessions = NoSessions

\* probe = prober.generate_counterfactual_probe(walker, scenario): a None
\* result leaves the probe in hand as it was.
GenerateCounterfactualProbe(w) ==
    LET pq == generate_counterfactual_probe(positions, edges, walkers[w])
    IN  /\ probe' = IF pq.probe_type = "none" THEN probe ELSE pq
        /\ last' = [op |-> "generate_counterfactual_probe", arg |-> <<w>>,
                    ret |-> <<pq.position_id>>]
        /\ UNCHANGED <<positions, edges, walkers, disk, loaded, threads, tree, sessions>>

\* probe = prober.generate_priority_probe(walker).
GeneratePriorityProbe(w) ==
    LET pq == generate_priority_probe(positions, walkers[w])
    IN  /\ probe' = IF pq.probe_type = "none" THEN probe ELSE pq
        /\ last' = [op |-> "generate_priority_probe", arg |-> <<w>>,
                    ret |-> <<pq.position_id>>]
        /\ UNCHANGED <<positions, edges, walkers, disk, loaded, threads, tree, sessions>>

\* prober.record_response(walker, probe, accepted) on the probe in hand.
RecordResponse(w, accepted) ==
    /\ probe.probe_type # "none"
    /\ Len(walkers[w].prediction_errors) < MaxErrors
    /\ LET r == record_response(positions, edges, walkers[w], probe, accepted)
       IN  /\ probe' = r.probe
           /\ walkers' = [walkers EXCEPT ![w] = r.walker]
    /\ last' = [op |-> "record_response", arg |-> <<w, accepted>>, ret |-> << >>]
    /\ UNCHANGED <<positions, edges, disk, loaded, threads, tree, sessions>>

NextProbe ==
    \/ \E w \in Walkers, pid \in ProbeIds, accepted \in BOOLEAN, confidence \in Confidences :
          WalkStep(w, pid, accepted, confidence)
    \/ \E w \in Walkers : GenerateCounterfactualProbe(w)
    \/ \E w \in Walkers : GeneratePriorityProbe(w)
    \/ \E w \in Walkers, accepted \in BOOLEAN : RecordResponse(w, accepted)

SpecProbe == InitProbe /\ [][NextProbe]_vars

\* ------------------------------------------------- concurrent walk_step calls
\* Two callers, each with a walker of its own, who accepted E1 and now step
\* to T over the one stored edge E1 -> T.  A call runs as the statements
\* of walk_step, _update_edges_from_choice and Edge.strengthen / Edge.weaken
\* run: every read of a shared attribute and the write that follows it are
\* separate steps, and the steps of two calls may interleave unless the
\* callers serialize them.
Callers == {"u1", "u2"}
SharedSource == "E1"
SharedTarget == "T"

\* Every call may start at any time.
MayCall_unserialized(t) == TRUE

\* A caller who serializes starts a call only when no other call is in
\* progress.
MayCall(t) ==
    threads.serialized =>
        \A u \in Callers \ {t} : threads.pc[u] \in {"idle", "done"}

\* The state after both walkers' walk_step(w, "E1", True).
InitConcurrent ==
    /\ positions = [id \in {SharedSource, SharedTarget} |->
                       IF id = SharedSource
                       THEN record_visit(record_visit(ProbePosition(id)))
                       ELSE ProbePosition(id)]
    /\ edges = connect(<< >>, SharedSource, SharedTarget, "IMPLIES", DefaultWeight, << >>)
    /\ \E confidence \in Confidences :
          walkers = [w \in Callers |->
                        [NewWalker EXCEPT
                            !.path = visit(@, SharedSource),
                            !.choices = Append(@, [position_id |-> SharedSource,
                                                   accepted |-> TRUE,
                                                   confidence |-> confidence])]]
    /\ last = NoCall
    /\ disk = NoFile
    /\ loaded = NotLoaded
    /\ probe = NoProbe
    /\ \E serialized \in BOOLEAN :
          threads = [serialized |-> serialized,
                     pc |-> [t \in Callers |-> "idle"],
                     accepted |-> [t \in Callers |-> FALSE],
                     seen |-> [t \in Callers |-> 0]]
    /\ tree = NoTree
    /\ sessions = NoSessions

\* walk_step entered: get_position, walker.visit, and the read of
\* position.visit_count that record_visit starts with.
Call(t, accepted) ==
    /\ threads.pc[t] = "idle"
    /\ MayCall(t)
    /\ walkers' = [walkers EXCEPT ![t].path = visit(@, SharedTarget)]
    /\ threads' = [threads EXCEPT !.pc[t] = "record_visit",
                                  !.accepted[t] = accepted,
                                  !.seen[t] = positions[SharedTarget].visit_count]
    /\ UNCHANGED <<positions, edges, last, disk, loaded, probe, tree, sessions>>

\* position.visit_count = <value read> + 1, then walker.record_choice.
RecordVisit(t, confidence) ==
    /\ threads.pc[t] = "record_visit"
    /\ positions' = [positions EXCEPT ![SharedTarget].visit_count = threads.seen[t] + 1]
    /\ walkers' = [walkers EXCEPT ![t].choices =
                       Append(@, [position_id |-> SharedTarget,
                                  accepted |-> threads.accepted[t],
                                  confidence |-> confidence])]
    /\ threads' = [threads EXCEPT !.pc[t] = "get_edge"]
    /\ UNCHANGED <<edges, last, disk, loaded, probe, tree, sessions>>

\* edge = get_edge(prev, current) and the read of edge.weight; a rejected
\* step past an edge that is not an implies edge goes on to return.
ReadWeight(t) ==
    LET path == walkers[t].path
        i == get_edge(edges, path[Len(path) - 1], SharedTarget)
    IN  /\ threads.pc[t] = "get_edge"
        /\ i # 0
        /\ threads' =
              IF threads.accepted[t] \/ edges[i].edge_type = "IMPLIES"
              THEN [threads EXCEPT !.pc[t] = "weight", !.seen[t] = edges[i].weight]
              ELSE [threads EXCEPT !.pc[t] = "return"]
        /\ UNCHANGED <<positions, edges, walkers, last, disk, loaded, probe, tree, sessions>>

\* self.weight = min(1.0, w + amount * (1 - w)) or max(0.0, w - amount * w)
\* on the weight w read before; weaken is followed by walker.weaken_edge.
WriteWeight(t) ==
    LET path == walkers[t].path
        i == get_edge(edges, path[Len(path) - 1], SharedTarget)
        read == [edges[i] EXCEPT !.weight = threads.seen[t]]
    IN  /\ threads.pc[t] = "weight"
        /\ IF threads.accepted[t]
           THEN /\ edges' = [edges EXCEPT ![i].weight =
                                strengthen(read, LearningRateNum, LearningRateDen).weight]
                /\ threads' = [threads EXCEPT !.pc[t] = "co_occurrence"]
                /\ UNCHANGED walkers
           ELSE /\ edges' = [edges EXCEPT ![i].weight =
                                weaken(read, LearningRateNum, LearningRateDen).weight]
                /\ walkers' = [walkers EXCEPT ![t].edges_weakened =
                                  AppendOnce(@, EdgeId(edges[i]))]
                /\ threads' = [threads EXCEPT !.pc[t] = "return"]
        /\ UNCHANGED <<positions, last, disk, loaded, probe, tree, sessions>>

\* self.co_occurrence += 1: the read.
ReadCoOccurrence(t) ==
    LET path == walkers[t].path
        i == get_edge(edges, path[Len(path) - 1], SharedTarget)
    IN  /\ threads.pc[t] = "co_occurrence"
        /\ threads' = [threads EXCEPT !.pc[t] = "co_occurrence_write",
                                      !.seen[t] = edges[i].co_occurrence]
        /\ UNCHANGED <<positions, edges, walkers, last, disk, loaded, probe, tree, sessions>>

\* self.co_occurrence += 1: the write, then walker.strengthen_edge(edge.id).
WriteCoOccurrence(t) ==
    LET path == walkers[t].path
        i == get_edge(edges, path[Len(path) - 1], SharedTarget)
    IN  /\ threads.pc[t] = "co_occurrence_write"
        /\ edges' = [edges EXCEPT ![i].co_occurrence = threads.seen[t] + 1]
        /\ walkers' = [walkers EXCEPT ![t].edges_strengthened =
                          AppendOnce(@, EdgeId(edges[i]))]
        /\ threads' = [threads EXCEPT !.pc[t] = "return"]
        /\ UNCHANGED <<positions, last, disk, loaded, probe, tree, sessions>>

\* The suggestions: implies() or contradicts(), the exploration loop, [:5].
Return(t) ==
    LET first == IF threads.accepted[t] THEN implies(positions, edges, SharedTarget)
                                        ELSE contradicts(positions, edges, SharedTarget)
    IN  /\ threads.pc[t] = "return"
        /\ \E order \in NeighborOrders(neighbor_ids(positions, edges, SharedTarget),
                                         first, walkers[t].path) :
              last' = [op |-> "walk_step", arg |-> SharedTarget,
                       ret |-> SubSeq(Explore(first, order, walkers[t].path), 1,
                                      Min(SuggestionLimit,
                                          Len(Explore(first, order, walkers[t].path))))]
        /\ threads' = [threads EXCEPT !.pc[t] = "done"]
        /\ UNCHANGED <<positions, edges, walkers, disk, loaded, probe, tree, sessions>>

NextConcurrent ==
    \/ \E t \in Callers, accepted \in BOOLEAN : Call(t, accepted)
    \/ \E t \in Callers, confidence \in Confidences : RecordVisit(t, confidence)
    \/ \E t \in Callers : ReadWeight(t)
    \/ \E t \in Callers : WriteWeight(t)
    \/ \E t \in Callers : ReadCoOccurrence(t)
    \/ \E t \in Callers : WriteCoOccurrence(t)
    \/ \E t \in Callers : Return(t)

SpecConcurrent == InitConcurrent /\ [][NextConcurrent]_vars

\* --------------------------------------------------------------- fork tree
\* FORK_TREE, the module-level list of Fork objects, in its order: a chain of
\* three of its forks.
FORK_TREE == <<"meaning", "individualism", "nationalism">>
\* Fork.parent_fork_id as FORK_TREE declares it; "" is None.
ParentInForkTree(id) ==
    IF id = "individualism" THEN "meaning"
    ELSE IF id = "nationalism" THEN "individualism"
    ELSE ""

\* Fork(...): child_forks starts empty.
Fork(id) == [parent_fork_id |-> ParentInForkTree(id), child_forks |-> << >>]

\* ForkTree._build_tree from the i-th fork of FORK_TREE on: self.forks holds
\* the forks before i; objs are the Fork objects, which every ForkTree shares.
RECURSIVE build_tree(_, _)
build_tree(objs, i) ==
    IF i > Len(FORK_TREE) THEN objs
    ELSE LET id == FORK_TREE[i]
             parent == objs[id].parent_fork_id
         IN  build_tree(
                 IF parent # "" /\ \E j \in 1..(i - 1) : FORK_TREE[j] = parent
                 THEN [objs EXCEPT ![parent].child_forks = Append(@, id)]
                 ELSE objs,
                 i + 1)

\* ForkTree.get_children: the ids of the forks returned, in order.
get_children(forks, fork_id) ==
    IF fork_id \notin DOMAIN forks THEN << >>
    ELSE SelectSeq(forks[fork_id].child_forks, LAMBDA cid : cid \in DOMAIN forks)

\* One turn of get_path_to_root's while loop.
get_path_to_root_step(forks, run) ==
    IF run.current = "" \/ run.current \notin DOMAIN forks
    THEN [run EXCEPT !.pc = "returned"]
    ELSE [run EXCEPT !.path = IF Len(@) < MaxPath THEN Append(@, run.current) ELSE @,
                     !.current = forks[run.current].parent_fork_id]

\* One step of _count_downstream's recurse(): the stack holds, for every
\* call of recurse in progress, its fork id and the index of the next child.
count_downstream_step(forks, run) ==
    IF run.stack = << >> THEN [run EXCEPT !.pc = "returned"]
    ELSE LET depth == Len(run.stack)
             fid == run.stack[depth][1]
             k == run.stack[depth][2]
             children == get_children(forks, fid)
         IN  IF k > Len(children)
             THEN [run EXCEPT !.stack = SubSeq(@, 1, depth - 1)]
             ELSE IF depth >= RecursionLimit
             THEN [run EXCEPT !.pc = "RecursionError", !.stack = << >>]
             ELSE [run EXCEPT !.count = @ + 2,
                              !.stack = Append([@ EXCEPT ![depth] = <<fid, k + 1>>],
                                               <<children[k], 1>>)]

\* The module is imported: the Fork objects exist, no tree is built.
InitTree ==
    /\ positions = << >>
    /\ edges = << >>
    /\ walkers = [w \in Walkers |-> NewWalker]
    /\ last = NoCall
    /\ disk = NoFile
    /\ loaded = NotLoaded
    /\ probe = NoProbe
    /\ threads = NoThreads
    /\ tree = [NoTree EXCEPT !.fork_objects = [id \in SetOf(FORK_TREE) |-> Fork(id)]]
    /\ sessions = NoSessions

\* ForkTree().
Construct ==
    /\ tree.run.pc # "running"
    /\ tree.built < MaxTrees
    /\ tree' = [tree EXCEPT !.fork_objects = build_tree(@, 1), !.built = @ + 1]
    /\ UNCHANGED <<positions, edges, walkers, last, disk, loaded, probe, threads, sessions>>

\* tree.save(path) on a constructed tree.
SaveTree ==
    /\ tree.run.pc # "running"
    /\ tree.built > 0
    /\ tree' = [tree EXCEPT !.file = [exists |-> TRUE, data |-> tree.fork_objects]]
    /\ UNCHANGED <<positions, edges, walkers, last, disk, loaded, probe, threads, sessions>>

\* The file is written by hand or by another program, in the same format:
\* a fork's parent id and child list are replaced.
EditTreeFile(id, parent, children) ==
    /\ tree.run.pc # "running"
    /\ tree.file.exists
    /\ tree' = [tree EXCEPT !.file.data[id] =
                    [parent_fork_id |-> parent, child_forks |-> children]]
    /\ UNCHANGED <<positions, edges, walkers, last, disk, loaded, probe, threads, sessions>>

\* ForkTree.load(path): a missing file gives ForkTree().
LoadTree ==
    /\ tree.run.pc # "running"
    /\ IF tree.file.exists
       THEN tree' = [tree EXCEPT !.loaded_tree = [exists |-> TRUE, forks |-> tree.file.data]]
       ELSE /\ tree.built < MaxTrees
            /\ tree' = [tree EXCEPT !.fork_objects = build_tree(@, 1), !.built = @ + 1]
    /\ UNCHANGED <<positions, edges, walkers, last, disk, loaded, probe, threads, sessions>>

\* tree.get_path_to_root(fork_id) is called.
CallPathToRoot(on, fork_id) ==
    /\ tree.run.pc # "running"
    /\ IF on = "built" THEN tree.built > 0 ELSE tree.loaded_tree.exists
    /\ tree' = [tree EXCEPT !.run = [NoRun EXCEPT !.op = "get_path_to_root", !.on = on,
                                                  !.pc = "running", !.current = fork_id]]
    /\ UNCHANGED <<positions, edges, walkers, last, disk, loaded, probe, threads, sessions>>

StepPathToRoot ==
    /\ tree.run.pc = "running"
    /\ tree.run.op = "get_path_to_root"
    /\ tree' = [tree EXCEPT !.run = get_path_to_root_step(IF tree.run.on = "built" THEN tree.fork_objects
                                                      ELSE tree.loaded_tree.forks, @)]
    /\ UNCHANGED <<positions, edges, walkers, last, disk, loaded, probe, threads, sessions>>

\* compactor._count_downstream(fork_id) is called: count = 2; recurse(fork_id).
CallCountDownstream(on, fork_id) ==
    /\ tree.run.pc # "running"
    /\ IF on = "built" THEN tree.built > 0 ELSE tree.loaded_tree.exists
    /\ tree' = [tree EXCEPT !.run = [NoRun EXCEPT !.op = "count_downstream", !.on = on,
                                                  !.pc = "running", !.current = fork_id,
                                                  !.count = 2,
                                                  !.stack = << <<fork_id, 1>> >>]]
    /\ UNCHANGED <<positions, edges, walkers, last, disk, loaded, probe, threads, sessions>>

StepCountDownstream ==
    /\ tree.run.pc = "running"
    /\ tree.run.op = "count_downstream"
    /\ tree' = [tree EXCEPT !.run = count_downstream_step(IF tree.run.on = "built" THEN tree.fork_objects
                                                      ELSE tree.loaded_tree.forks, @)]
    /\ UNCHANGED <<positions, edges, walkers, last, disk, loaded, probe, threads, sessions>>

NextTree ==
    \/ Construct
    \/ SaveTree
    \/ \E parent \in {"", "individualism"}, children \in {<< >>, <<"meaning">>} :
          EditTreeFile("meaning", parent, children)
    \/ LoadTree
    \/ \E on \in {"built", "loaded"}, fork_id \in SetOf(FORK_TREE) : CallPathToRoot(on, fork_id)
    \/ StepPathToRoot
    \/ \E on \in {"built", "loaded"}, fork_id \in SetOf(FORK_TREE) : CallCountDownstream(on, fork_id)
    \/ StepCountDownstream

SpecTree == InitTree /\ [][NextTree]_vars

\* A traversal that was called keeps running: the interpreter executes it.
SpecTreeRunning ==
    SpecTree /\ WF_vars(StepPathToRoot) /\ WF_vars(StepCountDownstream)

\* -------------------------------------------------------------- compaction
\* ForkDecisiveness(fork_id, ...) as analyze() without walkers fills it:
\* prediction_accuracy and variance_explained stay 0.0.
ForkDecisiveness(fork_id, information_gain, downstream_positions) ==
    [fork_id |-> fork_id, information_gain |-> information_gain,
     downstream_positions |-> downstream_positions, prediction_accuracy |-> 0,
     variance_explained |-> 0, betweenness |-> 0]

\* ForkDecisiveness.decisiveness_score, in units of 1 / (1000 * Scale):
\* 0.3 ig + 0.25 accuracy + 0.2 (downstream / 50) + 0.15 variance + 0.1 betweenness.
decisiveness_score(dec) ==
    300 * dec.information_gain + 250 * dec.prediction_accuracy
    + 4 * Scale * dec.downstream_positions
    + 150 * dec.variance_explained + 100 * dec.betweenness

\* cumulative_accuracy >= target_accuracy, strictly.
covered_strictly(cumulative_accuracy, target_accuracy) ==
    cumulative_accuracy > target_accuracy

\* if cumulative_accuracy >= target_accuracy: break
covered(cumulative_accuracy, target_accuracy) ==
    cumulative_accuracy >= target_accuracy

\* cumulative_accuracy += dec.information_gain * (1 - cumulative_accuracy)
accumulate(cumulative_accuracy, information_gain) ==
    cumulative_accuracy + RoundDiv(information_gain * (Scale - cumulative_accuracy), Scale)

\* The for loop of get_minimal_set from the i-th sorted entry on.
RECURSIVE minimal_set_from(_, _, _, _, _)
minimal_set_from(sorted, i, minimal_set, cumulative_accuracy, target_accuracy) ==
    IF i > Len(sorted) THEN minimal_set
    ELSE LET cum == accumulate(cumulative_accuracy, sorted[i][1].information_gain)
         IN  IF covered(cum, target_accuracy)
             THEN Append(minimal_set, sorted[i][1].fork_id)
             ELSE minimal_set_from(sorted, i + 1, Append(minimal_set, sorted[i][1].fork_id),
                                   cum, target_accuracy)

\* GraphCompactor.get_minimal_set(target_accuracy): the ids of the forks
\* returned.  decisiveness is self.decisiveness in insertion order; every
\* fork id in it is a fork of the tree.
get_minimal_set(decisiveness, target_accuracy) ==
    LET sorted == SortDescending([i \in 1..Len(decisiveness) |->
                                     <<decisiveness[i], decisiveness_score(decisiveness[i])>>])
    IN  minimal_set_from(sorted, 1, << >>, 0, target_accuracy)

\* information_gain and downstream_positions values of the analysed forks.
InformationGains == {(3 * Scale) \div 10, Scale \div 2, (9 * Scale) \div 10}
DownstreamCounts == {2, 6}
\* target_accuracy arguments; 0.8 is the default.
TargetAccuracies == {0, Scale \div 2, (8 * Scale) \div 10, Scale}

\* compactor.get_minimal_set(target) on an analysed tree of FORK_TREE's forks.
GetMinimalSet(gain, downstream, target_accuracy) ==
    LET decisiveness == [i \in 1..Len(FORK_TREE) |->
                            ForkDecisiveness(FORK_TREE[i], gain[i], downstream[i])]
    IN  /\ last' = [op |-> "get_minimal_set", arg |-> <<decisiveness, target_accuracy>>,
                    ret |-> get_minimal_set(decisiveness, target_accuracy)]
        /\ UNCHANGED <<positions, edges, walkers, disk, loaded, probe, threads, tree, sessions>>

NextCompact ==
    \E gain \in [1..Len(FORK_TREE) -> InformationGains],
       downstream \in [1..Len(FORK_TREE) -> DownstreamCounts],
       target_accuracy \in TargetAccuracies :
          GetMinimalSet(gain, downstream, target_accuracy)

SpecCompact == InitTree /\ [][NextCompact]_vars

\* ------------------------------------------------------------ create_walker
\* Walker.__post_init__: session_id = f"{user_id}_{int(created_at.timestamp())}",
\* kept as the pair of its two parts (the second part holds no "_", so
\* the string determines the pair).
session_id(user_id, second) == <<user_id, second>>

\* IdeologicalGraph.create_walker(user_id) at the given clock second: the
\* walkers mapping after the call.  obj names the new Walker object.
create_walker(ws, user_id, second, obj) ==
    [k \in (DOMAIN ws) \cup {session_id(user_id, second)} |->
        IF k = session_id(user_id, second) THEN [obj |-> obj, user_id |-> user_id]
        ELSE ws[k]]

CreateWalker(user_id) ==
    /\ sessions.created < MaxWalkers
    /\ sessions' = [sessions EXCEPT
                        !.walkers = create_walker(@, user_id, sessions.clock,
                                                  sessions.created + 1),
                        !.created = @ + 1]
    /\ last' = [op |-> "create_walker", arg |-> <<user_id>>,
                ret |-> <<session_id(user_id, sessions.clock)>>]
    /\ UNCHANGED <<positions, edges, walkers, disk, loaded, probe, threads, tree>>

\* A second passes.
Tick ==
    /\ sessions.clock < MaxClock
    /\ sessions' = [sessions EXCEPT !.clock = @ + 1]
    /\ UNCHANGED <<positions, edges, walkers, last, disk, loaded, probe, threads, tree>>

NextSessions ==
    \/ \E user_id \in {"u1", "u2"} : CreateWalker(user_id)
    \/ Tick

SpecSessions == Init /\ [][NextSessions]_vars

\* ------------------------------------------------------------------ claims
\* In a step: walk_step on a known position appended a Choice to walker w.
Stepped(w) == Len(walkers'[w].choices) = Len(walkers[w].choices) + 1
\* The Choice that step recorded, and prev = walker.path[-2] after the visit.
Chosen(w) == walkers'[w].choices[Len(walkers'[w].choices)]
Prev(w) == walkers'[w].path[Len(walkers'[w].path) - 1]
\* The edge the step's get_edge(prev, current) found among the stored edges.
Found(w) == get_edge(edges, Prev(w), Chosen(w).position_id)
\* An accepted step whose lookup found an edge prev -> current.
Strengthens(w) ==
    /\ Stepped(w)
    /\ Chosen(w).accepted
    /\ Len(walkers'[w].path) >= 2
    /\ Found(w) # 0

EdgeIds(es) == {EdgeId(es[i]) : i \in 1..Len(es)}
InRange(x) == 0 <= x /\ x <= Scale

SameTriple(e, f) ==
    /\ e.source_id = f.source_id
    /\ e.target_id = f.target_id
    /\ e.edge_type = f.edge_type

C3_WeightStaysInRange ==
    [][\A i \in 1..Len(edges') :
          IF i <= Len(edges)
          THEN InRange(edges[i].weight) => InRange(edges'[i].weight)
          ELSE last'.op = "walk_step" => InRange(edges'[i].weight)]_vars

\* C3 witness: one edge was both strengthened and weakened by walk_step.
C3_Witness ==
    \E i \in 1..Len(edges) :
        /\ Contains(walkers["w1"].edges_strengthened, EdgeId(edges[i]))
        /\ Contains(walkers["w1"].edges_weakened, EdgeId(edges[i]))
        /\ edges[i].co_occurrence >= 1
        /\ InRange(edges[i].weight)

\* C4: no step lowers a position's visit_count, and each walk_step on a known
\* position raises that position's visit_count by exactly 1, repeat visits
\* included.
C4_VisitCount ==
    [][/\ \A id \in DOMAIN positions :
             /\ id \in DOMAIN positions'
             /\ positions'[id].visit_count >= positions[id].visit_count
       /\ \A w \in Walkers :
             Stepped(w) =>
                 positions'[Chosen(w).position_id].visit_count
                     = positions[Chosen(w).position_id].visit_count + 1]_vars

\* C4 witness: a walker stepped twice on the same position; its path holds the
\* position once and the position counts two visits.
C4_Witness ==
    /\ Len(walkers["w1"].choices) = 2
    /\ walkers["w1"].choices[1].position_id = walkers["w1"].choices[2].position_id
    /\ Len(walkers["w1"].path) = 1
    /\ positions[walkers["w1"].path[1]].visit_count = 2

\* The position ids of the choices, each at its first occurrence.
RECURSIVE FirstVisits(_)
FirstVisits(choices) ==
    IF choices = << >> THEN << >>
    ELSE LET before == FirstVisits(SubSeq(choices, 1, Len(choices) - 1))
             pid == choices[Len(choices)].position_id
         IN  IF Contains(before, pid) THEN before ELSE Append(before, pid)

\* C5: a walker's path holds no position id twice; it lists the positions the
\* walker stepped on once each, in order of first visit.
C5_PathDistinct ==
    \A w \in Walkers :
        /\ \A i, j \in 1..Len(walkers[w].path) :
              walkers[w].path[i] = walkers[w].path[j] => i = j
        /\ walkers[w].path = FirstVisits(walkers[w].choices)

\* C5 witness: three steps, the third on the position of the first, and a path
\* of two.
C5_Witness ==
    /\ Len(walkers["w1"].choices) = 3
    /\ walkers["w1"].choices[1].position_id = walkers["w1"].choices[3].position_id
    /\ walkers["w1"].choices[1].position_id # walkers["w1"].choices[2].position_id
    /\ Len(walkers["w1"].path) = 2

\* C6: walk_step with a position id the graph does not hold returns the empty
\* list and changes neither the graph nor the walker.
C6_UnknownPositionNoOp ==
    [][last'.op = "walk_step" /\ last'.arg \notin DOMAIN positions =>
          /\ last'.ret = << >>
          /\ UNCHANGED <<positions, edges, walkers>>]_vars

\* C6 witness: the last call was a walk_step on an id the graph does not hold,
\* in a graph with positions, edges and a walker under way.
C6_Witness ==
    /\ last.op = "walk_step"
    /\ last.arg \notin DOMAIN positions
    /\ last.ret = << >>
    /\ DOMAIN positions # {}
    /\ edges # << >>
    /\ walkers["w1"].path # << >>

\* A Position's field values, its Python identity aside.
Fields(p) == [p EXCEPT !.obj = ""]

\* C7 as stated: load(save(graph)) yields the same position ids and edge ids,
\* every position and every edge with field values identical to the original.
C7_RoundTrip ==
    last.op = "load" /\ disk = save(positions, edges) =>
        /\ loaded.status = "ok"
        /\ DOMAIN loaded.positions = DOMAIN positions
        /\ \A pid \in DOMAIN positions :
              Fields(loaded.positions[pid]) = Fields(positions[pid])
        /\ loaded.edges = edges

UnknownDomains(file) ==
    {pid \in DOMAIN file.positions :
        \A m \in DOMAIN Domain : Domain[m] # file.positions[pid].domain}
UnknownEdgeTypes(file) ==
    {i \in 1..Len(file.edges) :
        \A m \in DOMAIN EdgeType : EdgeType[m] # file.edges[i].edge_type}

\* C8: loading a file in which a position has an unknown domain string or an
\* edge has an unknown edge_type string raises, and returns no graph: no
\* position and no edge, none with a substituted default.
C8_UnknownEnumRejected ==
    /\ last.op = "load"
    /\ disk.exists
    /\ UnknownDomains(disk) # {} \/ UnknownEdgeTypes(disk) # {}
    => loaded = [status |-> "raised", positions |-> << >>, edges |-> << >>]

\* C8 witness: a saved graph of two positions whose file got an unknown domain
\* string was loaded, and the load raised.
C8_Witness ==
    /\ last.op = "load"
    /\ disk.exists
    /\ UnknownDomains(disk) # {}
    /\ Cardinality(DOMAIN disk.positions) = 2
    /\ Len(disk.edges) >= 1
    /\ loaded.status = "raised"

\* The Position object add_position was last called with.
Given == CHOOSE p \in PositionInputs : p.obj = last'.arg

Count(seq, x) == Cardinality({i \in 1..Len(seq) : seq[i] = x})

\* C9: add_position with an id the graph holds returns the stored instance and
\* keeps the number of positions and the stored claim, domain, level and
\* visit_count; it appends to the stored sources, once each, the given sources
\* the position did not have; and the same call again changes nothing.
C9_AddExistingMerges ==
    [][last'.op = "add_position" /\ Given.id \in DOMAIN positions =>
          LET old == positions[Given.id]
              new == positions'[Given.id]
              added == SubSeq(new.sources, Len(old.sources) + 1, Len(new.sources))
          IN  /\ last'.ret = <<old.obj>>
              /\ DOMAIN positions' = DOMAIN positions
              /\ \A id \in DOMAIN positions \ {Given.id} : positions'[id] = positions[id]
              /\ new.obj = old.obj
              /\ new.claim = old.claim /\ new.domain = old.domain
              /\ new.level = old.level /\ new.visit_count = old.visit_count
              /\ SubSeq(new.sources, 1, Len(old.sources)) = old.sources
              /\ \A i \in 1..Len(Given.sources) : Contains(new.sources, Given.sources[i])
              /\ \A i \in 1..Len(added) :
                    /\ Contains(Given.sources, added[i])
                    /\ ~Contains(old.sources, added[i])
                    /\ Count(added, added[i]) = 1
              /\ add_position(positions', Given).graph = positions']_vars

\* C9 witness: object b was added under the id of the stored object a, which
\* was returned and gained b's new source once.
C9_Witness ==
    /\ last = [op |-> "add_position", arg |-> "b", ret |-> <<"a">>]
    /\ positions["P1"].obj = "a"
    /\ positions["P1"].claim = "c1"
    /\ positions["P1"].sources = <<"s1", "s2">>

\* C10: no call removes a position id or an edge id from the graph.
C10_NeverDeleted ==
    [][/\ DOMAIN positions \subseteq DOMAIN positions'
       /\ EdgeIds(edges) \subseteq EdgeIds(edges')]_vars

\* C10 witness: after add_position, connect and walk_step calls, one of them
\* rejected over an implies edge, the graph holds two positions and two edges.
C10_Witness ==
    /\ Cardinality(DOMAIN positions) = 2
    /\ Len(edges) >= 2
    /\ walkers["w1"].edges_weakened # << >>
    /\ walkers["w1"].edges_strengthened # << >>

\* The ids a step on pid puts first: the targets of the implies edges from pid
\* (accepted), the other ends of the contradicts edges at pid (rejected).
Priority(ps, es, pid, accepted) ==
    {id \in DOMAIN ps : \E i \in 1..Len(es) :
        IF accepted
        THEN es[i].edge_type = "IMPLIES" /\ es[i].source_id = pid /\ es[i].target_id = id
        ELSE /\ es[i].edge_type = "CONTRADICTS"
             /\ \/ es[i].source_id = pid /\ es[i].target_id = id
                \/ es[i].target_id = pid /\ es[i].source_id = id}
\* C11 as stated: in every state reached through connect with any supplied
\* weight, add_evidence, record_tension and strengthen, every stored edge has
\* weight, confidence and tension in [0,1].
C11_EdgeFieldsInRange ==
    \A i \in 1..Len(edges) :
        /\ InRange(edges[i].weight)
        /\ InRange(edges[i].confidence)
        /\ InRange(edges[i].tension)

\* C12: walk_step on a known position returns at most 5 suggestions; the
\* implied (accepted step) or contradicting (rejected step) positions all come
\* before any other suggestion; every other suggestion is a neighbour of the
\* position that is not on the walker's path; and while fewer than 5 are
\* returned none of the implied or contradicting positions is left out.
C12_Suggestions ==
    [][\A w \in Walkers :
          Stepped(w) =>
              LET ret == last'.ret
                  pid == Chosen(w).position_id
                  first == Priority(positions', edges', pid, Chosen(w).accepted)
              IN  /\ Len(ret) <= 5
                  /\ \A i, j \in 1..Len(ret) :
                        ret[i] \in first /\ ret[j] \notin first => i < j
                  /\ \A i \in 1..Len(ret) :
                        ret[i] \notin first =>
                            /\ ~Contains(walkers'[w].path, ret[i])
                            /\ ret[i] \in neighbor_ids(positions', edges', pid)
                  /\ Len(ret) < 5 => \A id \in first : Contains(ret, id)]_vars

\* C12 witness: the walker's first step rejected H; five suggestions came
\* back, the three contradicting entries first and then two of the three other
\* neighbours of H, the third being cut off.
C12_Witness ==
    /\ last.op = "walk_step" /\ last.arg = "H"
    /\ walkers["w1"].path = <<"H">>
    /\ ~walkers["w1"].choices[1].accepted
    /\ Len(last.ret) = 5
    /\ SubSeq(last.ret, 1, 3) = <<"L3", "L4", "L3">>
    /\ {last.ret[4], last.ret[5]} \subseteq {"L1", "L2", "L5"}
    /\ last.ret[4] # last.ret[5]

\* The candidates of suggest_outside_basin for walker w: the positions that are
\* not on its path and that no position it accepted implies.
Accepted(w) == {walkers[w].choices[i].position_id :
                   i \in {j \in 1..Len(walkers[w].choices) : walkers[w].choices[j].accepted}}
Outside(w) ==
    {id \in DOMAIN positions :
        /\ ~Contains(walkers[w].path, id)
        /\ ~\E i \in 1..Len(edges) :
              /\ edges[i].edge_type = "IMPLIES" /\ edges[i].target_id = id
              /\ edges[i].source_id \in Accepted(w)}
\* The one-hop connections of id to the accepted positions: one per accepted
\* position and direction in which an edge exists.  The basin distance is
\* 1 - Connections / (2 * |accepted|).
Connections(w, id) ==
    Cardinality({<<a, d>> \in Accepted(w) \X {"to", "from"} :
        \E i \in 1..Len(edges) :
            IF d = "to" THEN edges[i].source_id = a /\ edges[i].target_id = id
                        ELSE edges[i].source_id = id /\ edges[i].target_id = a})

\* C13: suggest_outside_basin(walker, n) returns at most n positions, each a
\* candidate (not on the path, not implied by an accepted position), in order
\* of non-increasing basin distance, and no candidate left out has a strictly
\* larger basin distance than a returned one.
C13_OutsideBasin ==
    last.op = "suggest_outside_basin" =>
        LET w == last.arg[1]
            n == last.arg[2]
            ret == last.ret
        IN  /\ Len(ret) <= n
            /\ \A i \in 1..Len(ret) : ret[i] \in Outside(w)
            /\ \A i, j \in 1..Len(ret) :
                  i < j => Connections(w, ret[i]) <= Connections(w, ret[j])
            /\ \A id \in Outside(w) \ SetOf(ret) :
                  \A i \in 1..Len(ret) : Connections(w, id) >= Connections(w, ret[i])

\* C13 witness: the walker accepted H only; of the three candidates the two
\* with one connection to H were returned for n = 2 and L3, with two, was not;
\* L1 and L2, implied by H, are no candidates.
C13_Witness ==
    /\ last.op = "suggest_outside_basin"
    /\ last.arg = <<"w1", 2>>
    /\ Accepted("w1") = {"H"}
    /\ Outside("w1") = {"L3", "L4", "L5"}
    /\ last.ret = <<"L4", "L5">>
    /\ Connections("w1", "L3") = 2

\* C14: for a walker with no recorded choice predict_position returns
\* predicted_acceptance 0.5 and uncertainty 1.0 for every position, whatever
\* edges lead to it.
C14_NoDataPrediction ==
    last.op = "predict_position" /\ walkers[last.arg[1]].choices = << >> =>
        /\ last.ret[1].predicted_acceptance = Scale \div 2
        /\ last.ret[1].uncertainty = Scale
        /\ last.ret[1].position_id = last.arg[2]

\* C14 witness: the prediction for L1, the target of an implies edge and the
\* source of a contradicts edge, was asked for a walker without choices.
C14_Witness ==
    /\ last.op = "predict_position"
    /\ last.arg = <<"w1", "L1">>
    /\ walkers["w1"].choices = << >>
    /\ \E i \in 1..Len(edges) : edges[i].target_id = "L1" /\ edges[i].edge_type = "IMPLIES"
    /\ last.ret[1].uncertainty = Scale

\* The positions walker w holds an attitude on, and its latest choice on one.
Held(w) == {walkers[w].choices[i].position_id : i \in 1..Len(walkers[w].choices)}
Latest(w, id) ==
    walkers[w].choices[CHOOSE i \in 1..Len(walkers[w].choices) :
        /\ walkers[w].choices[i].position_id = id
        /\ \A j \in (i + 1)..Len(walkers[w].choices) : walkers[w].choices[j].position_id # id]
\* The implies and contradicts edges between a and b, in either direction.
Linking(a, b) ==
    {i \in 1..Len(edges) :
        /\ edges[i].edge_type \in {"IMPLIES", "CONTRADICTS"}
        /\ \/ edges[i].source_id = a /\ edges[i].target_id = b
           \/ edges[i].source_id = b /\ edges[i].target_id = a}
\* The relation sign of a pair: +1 for implies and -1 for contradicts (the first
\* such edge stored), else +1 when the two attitudes have the same sign, else -1.
RelationSign(w, a, b) ==
    IF Linking(a, b) # {}
    THEN IF edges[CHOOSE i \in Linking(a, b) : \A j \in Linking(a, b) : i <= j].edge_type
              = "IMPLIES" THEN 1 ELSE -1
    ELSE IF Latest(w, a).accepted = Latest(w, b).accepted /\ Latest(w, a).confidence > 0
              /\ Latest(w, b).confidence > 0
         THEN 1 ELSE -1
Triads(w) == {T \in SUBSET Held(w) : Cardinality(T) = 3}
SignProduct(w, T) ==
    LET a == CHOOSE x \in T : TRUE
        b == CHOOSE x \in T \ {a} : TRUE
        c == CHOOSE x \in T \ {a, b} : TRUE
    IN  RelationSign(w, a, b) * RelationSign(w, b, c) * RelationSign(w, c, a)
\* A triad whose pairs are linked by implies, implies and contradicts edges.
TwoImpliesOneContradicts(T) ==
    \E a, b, c \in T :
        /\ a # b /\ b # c /\ a # c
        /\ Linking(a, b) # {} /\ \A i \in Linking(a, b) : edges[i].edge_type = "IMPLIES"
        /\ Linking(b, c) # {} /\ \A i \in Linking(b, c) : edges[i].edge_type = "IMPLIES"
        /\ Linking(a, c) # {} /\ \A i \in Linking(a, c) : edges[i].edge_type = "CONTRADICTS"

\* C15: the sgm of the balance state is 0.0 with fewer than 3 attitudes; with 3
\* or more it is (balanced - imbalanced) / triads, a triad being imbalanced
\* exactly when the product of its three relation signs is negative; so with
\* attitudes on exactly one triad linked by two implies edges and one
\* contradicts edge the sgm is -1, whatever the attitude values.
C15_SignedGraphMeasure ==
    last.op = "get_walker_balance_state" =>
        LET w == last.arg[1]
            sgm == last.ret[1].sgm
            imbalanced == Cardinality({T \in Triads(w) : SignProduct(w, T) < 0})
            total == Cardinality(Triads(w))
        IN  /\ Cardinality(Held(w)) < 3 => sgm = 0
            /\ Cardinality(Held(w)) >= 3 =>
                  sgm = RoundDiv((total - 2 * imbalanced) * Scale, total)
            /\ Cardinality(Held(w)) = 3 /\ TwoImpliesOneContradicts(Held(w)) => sgm = 0 - Scale

\* C15 witness: the walker accepted H, L1 and L2, whose pairs are linked by
\* implies, implies and contradicts; all attitudes are positive and the sgm
\* is -1.
C15_Witness ==
    /\ last.op = "get_walker_balance_state"
    /\ Held("w1") = {"H", "L1", "L2"}
    /\ \A i \in 1..Len(walkers["w1"].choices) : walkers["w1"].choices[i].accepted
    /\ TwoImpliesOneContradicts(Held("w1"))
    /\ last.ret[1].sgm = 0 - Scale

\* The expected visits of a position: the sum, over the edges into it, of the
\* source's visit_count times the edge weight (on the grid).
RECURSIVE ExpectedUpTo(_, _)
ExpectedUpTo(pid, n) ==
    IF n = 0 THEN 0
    ELSE ExpectedUpTo(pid, n - 1)
         + (IF edges[n].target_id = pid /\ edges[n].source_id \in DOMAIN positions
            THEN positions[edges[n].source_id].visit_count * edges[n].weight ELSE 0)
Expected(pid) == ExpectedUpTo(pid, Len(edges))
\* The void detect_voids returned for pid, if any.
Voids(pid) == {i \in 1..Len(last.ret) : last.ret[i].position_id = pid}

\* C16 as stated: detect_voids gives every position with visit_count 0 and
\* expected visits >= min_expected the void_ratio 1.0 and returns it whenever
\* min_void_ratio <= 1.0; it returns no position with expected visits below
\* min_expected.
C16_UnvisitedIsVoid ==
    last.op = "detect_voids" =>
        \A pid \in DOMAIN positions :
            /\ ( /\ positions[pid].visit_count = 0
                 /\ Expected(pid) >= last.arg[1] * Scale
                 /\ last.arg[2] <= Scale )
                  => \E i \in Voids(pid) : last.ret[i].void_ratio = Scale
            /\ Expected(pid) < last.arg[1] * Scale => Voids(pid) = {}

\* C16 amended: detect_voids gives every position with visit_count 0 and
\* expected visits that are positive and >= min_expected the void_ratio 1.0
\* and returns it, once, whenever min_void_ratio <= 1.0; it returns no position
\* with expected visits below min_expected.
C16_UnvisitedExpectedIsVoid ==
    last.op = "detect_voids" =>
        \A pid \in DOMAIN positions :
            /\ ( /\ positions[pid].visit_count = 0
                 /\ Expected(pid) > 0
                 /\ Expected(pid) >= last.arg[1] * Scale
                 /\ last.arg[2] <= Scale )
                  => /\ Cardinality(Voids(pid)) = 1
                     /\ \A i \in Voids(pid) : last.ret[i].void_ratio = Scale
            /\ Expected(pid) < last.arg[1] * Scale => Voids(pid) = {}

\* C16 witness: detect_voids(1, 1.0) after H was stepped on twice: L3, never
\* visited and expected once from H, is returned with void_ratio 1.0; L5, which
\* no edge leads to, is not.
C16_Witness ==
    /\ last.op = "detect_voids"
    /\ last.arg = <<1, Scale>>
    /\ positions["H"].visit_count = 2
    /\ positions["L3"].visit_count = 0
    /\ Expected("L3") >= Scale
    /\ \E i \in Voids("L3") : last.ret[i].void_ratio = Scale
    /\ Expected("L5") < Scale /\ Voids("L5") = {}

\* C17 as stated: Archetype.matches is 0.0 when the walker accepted neither
\* pole of any fork of the archetype; otherwise it is the fraction, in [0,1],
\* of the forks the walker took a side on (accepted a pole of) for which the
\* archetype's declared pole is one the walker accepted.
C17_MatchFraction ==
    last.op = "matches" =>
        LET w == last.arg[1]
            fork_choices == last.arg[2]
            sided == {i \in 1..Len(fork_choices) :
                         \/ (fork_choices[i][1] \o "_a") \in Accepted(w)
                         \/ (fork_choices[i][1] \o "_b") \in Accepted(w)}
            agreeing == {i \in sided :
                            (fork_choices[i][1] \o "_" \o fork_choices[i][2]) \in Accepted(w)}
        IN  /\ InRange(last.ret[1])
            /\ sided = {} => last.ret[1] = 0
            /\ sided # {} =>
                  last.ret[1] = RoundDiv(Cardinality(agreeing) * Scale, Cardinality(sided))

\* C18: record_response marks the probe's prediction as tested (with the
\* actual response) and appends exactly one PredictionError, for the probe's
\* position with the predicted and the actual side, iff the predicted side
\* (predicted_acceptance > 0.5) differs from the response; when the sides
\* agree the walker's prediction_errors are unchanged.
C18_RecordResponse ==
    [][\A w \in Walkers, accepted \in BOOLEAN :
          (/\ last'.op = "record_response"
           /\ last'.arg = <<w, accepted>>) =>
              LET side == 2 * probe.prediction.predicted_acceptance > Scale
                  before == walkers[w].prediction_errors
                  after == walkers'[w].prediction_errors
              IN  /\ probe'.prediction.was_tested
                  /\ probe'.prediction.actual_acceptance = <<accepted>>
                  /\ side # accepted =>
                        /\ Len(after) = Len(before) + 1
                        /\ SubSeq(after, 1, Len(before)) = before
                        /\ after[Len(after)].position_id = probe.position_id
                        /\ after[Len(after)].predicted = side
                        /\ after[Len(after)].actual = accepted
                  /\ side = accepted => after = before]_vars

\* A counterfactual probe on T predicted above 0.5 was rejected, which added
\* one error; a later priority probe predicted at 0.5 was rejected too, which
\* agreed with its prediction and added none.
C18_Witness ==
    /\ last.op = "record_response"
    /\ last.arg = <<"w1", FALSE>>
    /\ probe.prediction.was_tested
    /\ probe.probe_type = "priority"
    /\ Len(walkers["w1"].prediction_errors) = 1
    /\ walkers["w1"].prediction_errors[1].position_id = "T"
    /\ walkers["w1"].prediction_errors[1].predicted
    /\ ~walkers["w1"].prediction_errors[1].actual

\* C19: an accepted walk_step that finds no edge from prev (path[-2]) to the
\* current position adds exactly one edge to the graph: an implies edge from
\* prev to current weighing exactly 0.3, whose id is in the walker's
\* edges_strengthened; every edge that was there stays as it was.
C19_CoOccurrenceEdge ==
    [][\A w \in Walkers :
          LET pid == last'.arg
              path == walkers'[w].path
              choices == walkers'[w].choices
              prev == path[Len(path) - 1]
          IN  (/\ last'.op = "walk_step"
               /\ Known(positions, pid)
               /\ Len(choices) = Len(walkers[w].choices) + 1
               /\ choices[Len(choices)].accepted
               /\ Len(path) >= 2
               /\ ~\E i \in 1..Len(edges) :
                      edges[i].source_id = prev /\ edges[i].target_id = pid) =>
                  /\ Len(edges') = Len(edges) + 1
                  /\ SubSeq(edges', 1, Len(edges)) = edges
                  /\ edges'[Len(edges')].edge_type = "IMPLIES"
                  /\ edges'[Len(edges')].source_id = prev
                  /\ edges'[Len(edges')].target_id = pid
                  /\ edges'[Len(edges')].weight = (3 * Scale) \div 10
                  /\ Contains(walkers'[w].edges_strengthened,
                              prev \o "->" \o pid \o ":implies")]_vars

\* P1 -> P2 is connected; the walker accepted P2 and then P1, and the step
\* to P1 created P2 -> P1 at 0.3 beside it.
C19_Witness ==
    /\ last.op = "walk_step"
    /\ last.arg = "P1"
    /\ walkers["w1"].path = <<"P2", "P1">>
    /\ Len(walkers["w1"].choices) = 2
    /\ walkers["w1"].choices[2].accepted
    /\ Len(edges) = 2
    /\ edges[1].source_id = "P1" /\ edges[1].target_id = "P2"
    /\ edges[2].source_id = "P2" /\ edges[2].target_id = "P1"
    /\ edges[2].edge_type = "IMPLIES"
    /\ edges[2].weight = (3 * Scale) \div 10
    /\ walkers["w1"].edges_strengthened = <<"P2->P1:implies">>

\* C20 as stated: whenever a walk_step is rejected and an implies edge from
\* prev (path[-2]) to the current position is in the graph, that edge is
\* weakened by the learning rate and its id is in the walker's
\* edges_weakened, whatever other edges also link prev to current.
C20_ImpliesWeakened ==
    [][\A w \in Walkers :
          LET pid == last'.arg
              path == walkers'[w].path
              choices == walkers'[w].choices
              prev == path[Len(path) - 1]
          IN  (/\ last'.op = "walk_step"
               /\ Known(positions, pid)
               /\ Len(choices) = Len(walkers[w].choices) + 1
               /\ ~choices[Len(choices)].accepted
               /\ Len(path) >= 2) =>
                  \A i \in 1..Len(edges) :
                      (/\ edges[i].source_id = prev
                       /\ edges[i].target_id = pid
                       /\ edges[i].edge_type = "IMPLIES") =>
                          /\ edges'[i] = weaken(edges[i], LearningRateNum, LearningRateDen)
                          /\ Contains(walkers'[w].edges_weakened,
                                      prev \o "->" \o pid \o ":implies")]_vars

Strengthened(weight) == Min(Scale, RoundDiv(weight * 10 + (Scale - weight), 10))

\* C22: when the two walkers' accepted steps over the stored edge are
\* serialized by the caller, both updates are reflected once both calls have
\* returned: co_occurrence is 2 higher and the weight is strengthened twice.
\* (That an interleaving of unserialized calls can lose an update is the
\* reachable state C22_Witness.)
C22_SerializedBothReflected ==
    (/\ threads.serialized
     /\ \A t \in Callers : threads.pc[t] = "done" /\ threads.accepted[t]) =>
        /\ Len(edges) = 1
        /\ edges[1].co_occurrence = 2
        /\ edges[1].weight = Strengthened(Strengthened(Scale \div 2))

\* Unserialized, both accepted calls have returned and one update is lost:
\* the edge was counted once and strengthened once.
C22_Witness ==
    /\ ~threads.serialized
    /\ \A t \in Callers : threads.pc[t] = "done" /\ threads.accepted[t]
    /\ edges[1].co_occurrence = 1
    /\ edges[1].weight = Strengthened(Scale \div 2)
    /\ \A t \in Callers : walkers[t].edges_strengthened = <<"E1->T:implies">>

\* C23 as stated: every get_path_to_root and every _count_downstream, on any
\* fork of any tree constructed or loaded from a fork-tree file, completes
\* after finitely many steps.
C23_TraversalsTerminate ==
    (tree.run.pc = "running") ~> (tree.run.pc = "returned")

\* The ForkDecisiveness of a fork id in the dict.
DecOf(decisiveness, fork_id) ==
    decisiveness[CHOOSE i \in 1..Len(decisiveness) : decisiveness[i].fork_id = fork_id]

\* The coverage accumulated over the first k forks of ids, starting from 0.
RECURSIVE Coverage(_, _, _)
Coverage(decisiveness, ids, k) ==
    IF k = 0 THEN 0
    ELSE LET before == Coverage(decisiveness, ids, k - 1)
             gain == DecOf(decisiveness, ids[k]).information_gain
         IN  before + RoundDiv(gain * (Scale - before), Scale)

\* ids is a prefix of the forks in descending decisiveness order: scores do
\* not rise along it, no fork occurs twice, and no fork left out has a
\* higher score than one taken.
DecisivenessPrefix(decisiveness, ids) ==
    LET score(id) == decisiveness_score(DecOf(decisiveness, id))
        all == {decisiveness[i].fork_id : i \in 1..Len(decisiveness)}
    IN  /\ SetOf(ids) \subseteq all
        /\ \A i, j \in 1..Len(ids) : i < j => ids[i] # ids[j] /\ score(ids[i]) >= score(ids[j])
        /\ \A id \in all \ SetOf(ids) : \A i \in 1..Len(ids) : score(ids[i]) >= score(id)

\* C24 as stated: get_minimal_set(target) returns a prefix of the forks in
\* descending decisiveness order, the shortest prefix (the empty one
\* included) whose accumulated coverage reaches the target, and all forks if
\* no prefix reaches it.
C24_ShortestPrefix ==
    last.op = "get_minimal_set" =>
        LET decisiveness == last.arg[1]
            target == last.arg[2]
            ids == last.ret
        IN  /\ DecisivenessPrefix(decisiveness, ids)
            /\ \A k \in 0..(Len(ids) - 1) : Coverage(decisiveness, ids, k) < target
            /\ \/ Coverage(decisiveness, ids, Len(ids)) >= target
               \/ Len(ids) = Len(decisiveness)

\* C24, amended: get_minimal_set(target) returns a prefix of the forks in
\* descending decisiveness order, the shortest prefix of at least one fork
\* whose accumulated coverage reaches the target, and all forks if no prefix
\* reaches it.
C24_ShortestNonEmptyPrefix ==
    last.op = "get_minimal_set" =>
        LET decisiveness == last.arg[1]
            target == last.arg[2]
            ids == last.ret
        IN  /\ DecisivenessPrefix(decisiveness, ids)
            /\ Len(ids) >= 1
            /\ \A k \in 1..(Len(ids) - 1) : Coverage(decisiveness, ids, k) < target
            /\ \/ Coverage(decisiveness, ids, Len(ids)) >= target
               \/ Len(ids) = Len(decisiveness)

\* The target 0.5 is met exactly by the second fork: the first fork (0.3)
\* is not enough, the third is left out.
C24_Witness ==
    /\ last.op = "get_minimal_set"
    /\ last.arg[2] = Scale \div 2
    /\ Len(last.ret) = 2
    /\ Len(last.arg[1]) = 3
    /\ Coverage(last.arg[1], last.ret, 1) < Scale \div 2
    /\ Coverage(last.arg[1], last.ret, 2) >= Scale \div 2
    /\ last.ret[1] # last.arg[1][1].fork_id

\* C25 as stated: no sequence of walk_step calls on a graph without
\* self-loops creates an edge from a position to itself, also when a walker
\* steps again onto a position already on its path.
C25_NoSelfLoop ==
    \A i \in 1..Len(edges) : edges[i].source_id # edges[i].target_id

\* C26 as stated: after any sequence of walk_step calls no position id is in
\* both positions_accepted and positions_rejected of a walker.
C26_OneStancePerPosition ==
    \A w \in Walkers :
        SetOf(positions_accepted(walkers[w])) \cap SetOf(positions_rejected(walkers[w])) = {}

\* C27: for a walker mutated only through walk_step, the position ids with a
\* Choice in walker.choices are exactly the ids on walker.path, and the
\* choices are as many as the walk_step calls that resolved their position:
\* none at first, one more with every such call, and as many after any
\* other call.
C27_ChoicesMatchPath ==
    /\ [](\A w \in Walkers :
            /\ {walkers[w].choices[i].position_id : i \in 1..Len(walkers[w].choices)}
                  = SetOf(walkers[w].path)
            /\ last.op = "none" => Len(walkers[w].choices) = 0)
    /\ [][\A w \in Walkers :
            LET before == walkers[w].choices
                after == walkers'[w].choices
            IN  IF last'.op = "walk_step" /\ Known(positions, last'.arg)
                THEN /\ Len(after) = Len(before) + 1
                     /\ SubSeq(after, 1, Len(before)) = before
                     /\ after[Len(after)].position_id = last'.arg
                ELSE after = before]_vars

\* The walker chose at P1 twice and then stepped to a position the graph
\* does not hold: two choices, one id on the path.
C27_Witness ==
    /\ last.op = "walk_step"
    /\ last.arg = "P3"
    /\ ~Known(positions, "P3")
    /\ walkers["w1"].path = <<"P1">>
    /\ Len(walkers["w1"].choices) = 2
    /\ walkers["w1"].choices[2].position_id = "P1"

\* C28 as stated: create_walker never overwrites a walker created before:
\* after k calls, for any user ids and at any times, the graph's walkers
\* mapping holds k distinct walkers.
C28_WalkersKept ==
    /\ Cardinality(DOMAIN sessions.walkers) = sessions.created
    /\ Cardinality({sessions.walkers[k].obj : k \in DOMAIN sessions.walkers}) = sessions.created

\* C29 as stated: the suggestion list walk_step returns never holds the same
\* position twice, also when contradicts edges run in both directions
\* between two positions.
C29_SuggestionsDistinct ==
    last.op = "walk_step" =>
        \A i, j \in 1..Len(last.ret) : i # j => last.ret[i] # last.ret[j]

\* The forks FORK_TREE declares above a fork: its parent, the parent's parent...
RECURSIVE Ancestors(_)
Ancestors(id) ==
    IF ParentInForkTree(id) = "" THEN {}
    ELSE {ParentInForkTree(id)} \cup Ancestors(ParentInForkTree(id))

\* C30 as stated: however many times ForkTree is constructed, each fork's
\* child_forks lists each of its children exactly once, so get_children and
\* the downstream count of a fork (2 for itself and 2 for every fork below
\* it) are the same for every instance as for the first.
C30_ChildrenListedOnce ==
    tree.built >= 1 =>
        /\ \A id \in SetOf(FORK_TREE) :
              LET children == get_children(tree.fork_objects, id)
              IN  /\ SetOf(children) = {c \in SetOf(FORK_TREE) : ParentInForkTree(c) = id}
                  /\ \A i, j \in 1..Len(children) : i # j => children[i] # children[j]
        /\ (/\ tree.run.op = "count_downstream"
            /\ tree.run.on = "built"
            /\ tree.run.pc = "returned") =>
              tree.run.count =
                  2 + 2 * Cardinality({c \in SetOf(FORK_TREE) : tree.run.current \in Ancestors(c)})
====
